---- MODULE Spec2Model ----
(***************************************************************************)
(* winregenv: the registry operation layer (registry_base.py), the key     *)
(* handle context manager (registry_context_managers.py), the error        *)
(* normalizer (registry_errors.py) and the scoped root facade              *)
(* (registry_interface.py), over a model of the winreg primitives.         *)
(*                                                                         *)
(* Strings that the code takes apart (key paths) are sequences of one-     *)
(* character strings; value names are plain strings.  An Optional[x] is    *)
(* the empty sequence (None) or the one-element sequence <<x>>.            *)
(* One action is one call of a winreg primitive (or of the elevation       *)
(* probe) together with the Python control flow that follows it up to the  *)
(* next primitive; the Call actions are the entry of an operation up to    *)
(* its first primitive.                                                    *)
(***************************************************************************)
EXTENDS Integers, Sequences, FiniteSets, TLC

VARIABLES
    reg,        \* the hive: existing key path -> (value name -> value or NoValue)
    handles,    \* open key handles, in order of acquisition
    pc,         \* position of the running operation, "idle" when none runs
    op,         \* the running (or last) call and its resolved paths
    pending,    \* outcome waiting for the with-block's __exit__
    acc,        \* entries collected so far by an enumeration
    result,     \* how the last call ended
    pre,        \* the hive as it was when the call started
    trace,      \* the winreg primitives the call has invoked so far
    root,       \* the RegistryRoot instance the call goes through, if any
    probes      \* number of times is_elevated() was invoked

vars == <<reg, handles, pc, op, pending, acc, result, pre, trace, root, probes>>

----------------------------------------------------------------------------
(* Bounds of the model *)

\* Most values the hive holds at any time (a write of a new value is only
\* started below this bound).
MaxValues == 2

\* Most calls of the elevation probe in one behaviour of SpecRoot.
MaxProbes == 2

----------------------------------------------------------------------------
(* Optional values *)

None == <<>>
Some(x) == <<x>>

----------------------------------------------------------------------------
(* Key paths *)

SEP == "\\"
ALT == "/"
IsSep(c) == c \in {SEP, ALT}

\* str.replace('/', '\\')
replace_alt(s) == [i \in 1..Len(s) |-> IF s[i] = ALT THEN SEP ELSE s[i]]

\* os.path.join of two paths on Windows, for paths without a drive or UNC
\* part: an absolute second path replaces the first; otherwise the two are
\* joined by one backslash unless the first already ends in a separator.
ntpath_join(a, p) ==
    IF p # <<>> /\ IsSep(p[1]) THEN p
    ELSE IF a # <<>> /\ ~IsSep(a[Len(a)]) THEN a \o <<SEP>> \o p
    ELSE a \o p

join_registry_paths(prefix, path) ==
    IF prefix = <<>> THEN path
    ELSE IF path = <<>> THEN prefix
    ELSE replace_alt(ntpath_join(prefix, path))

\* Largest index of a separator in s, 0 if none.
LastSep(s) ==
    LET I == {i \in 1..Len(s) : IsSep(s[i])}
    IN  IF I = {} THEN 0 ELSE CHOOSE i \in I : \A j \in I : j <= i

\* str.rstrip of both separators
RECURSIVE rstrip_seps(_)
rstrip_seps(s) ==
    IF s # <<>> /\ IsSep(s[Len(s)]) THEN rstrip_seps(SubSeq(s, 1, Len(s) - 1))
    ELSE s

\* os.path.split on Windows (no drive): <<head, tail>>, the tail holding no
\* separator and the head stripped of trailing separators below the root.
ntpath_split(p) ==
    LET r    == IF p # <<>> /\ IsSep(p[1]) THEN <<p[1]>> ELSE <<>>
        rest == SubSeq(p, Len(r) + 1, Len(p))
        i    == LastSep(rest)
    IN  << r \o rstrip_seps(SubSeq(rest, 1, i)), SubSeq(rest, i + 1, Len(rest)) >>

\* The paths the calls are made with.
PathA  == <<"A">>
PathB  == <<"B">>
PathAB == <<"A", SEP, "B">>

\* Keys that the model lets a call create (creating calls are only started
\* when the resolved path is one of these).
KeyUniverse == {PathA, PathAB}

Prefixes    == {<<>>, PathA}
KeyPaths    == {<<>>, PathA, PathB}
SubkeyNames == {<<>>, PathB}

----------------------------------------------------------------------------
(* Exceptions *)

\* Error codes of the OS
ERROR_FILE_NOT_FOUND == 2
ERROR_ACCESS_DENIED  == 5
ERROR_ALREADY_EXISTS == 183
ERROR_FILENAME_EXCED_RANGE == 206
ERROR_DIR_NOT_EMPTY  == 247
ERROR_NO_MORE_ITEMS  == 259

\* The message the OS attaches to an error code.
StrError(c) == <<"strerror", c>>

\* A raw OSError raised by a winreg primitive with code c.
OSErr(c) ==
    [cls |-> "OSError", winerror |-> Some(c), strerror |-> Some(StrError(c)),
     path |-> None, name |-> None, counts |-> None, kind |-> "os"]

\* An OSError that carries neither a code nor an OS message.
OSErrNoCode ==
    [cls |-> "OSError", winerror |-> None, strerror |-> None,
     path |-> None, name |-> None, counts |-> None, kind |-> "os"]

\* Failures a primitive may report whatever the state of the hive: access
\* denied, and a code the error table maps to the generic class.
Faults == {OSErr(ERROR_ACCESS_DENIED), OSErr(ERROR_ALREADY_EXISTS)}

RegistryErrorClasses ==
    {"RegistryError", "RegistryKeyNotFoundError", "RegistryValueNotFoundError",
     "RegistryKeyNotEmptyError", "RegistryPermissionError", "RegistryExpansionError"}

\* isinstance(e, RegistryError)
IsRegistryError(e) == e.cls \in RegistryErrorClasses

\* isinstance(e, OSError): of the domain classes only RegistryPermissionError
\* derives from OSError (through PermissionError).
IsOSError(e) == e.cls \in {"OSError", "RegistryPermissionError"}

\* An error table with a row of its own for ERROR_ALREADY_EXISTS.
ERROR_MAP_exists_row(code) ==
    IF code = Some(ERROR_FILE_NOT_FOUND) THEN "RegistryKeyNotFoundError"
    ELSE IF code = Some(ERROR_ACCESS_DENIED) THEN "RegistryPermissionError"
    ELSE IF code = Some(ERROR_DIR_NOT_EMPTY) THEN "RegistryKeyNotEmptyError"
    ELSE IF code = Some(ERROR_ALREADY_EXISTS) THEN "RegistryKeyNotEmptyError"
    ELSE "RegistryError"

\* An error table without rows.
ERROR_MAP_no_rows(code) == "RegistryError"

\* _ERROR_MAP.get(err_code, RegistryError)
ERROR_MAP(code) ==
    IF code = Some(ERROR_FILE_NOT_FOUND) THEN "RegistryKeyNotFoundError"
    ELSE IF code = Some(ERROR_ACCESS_DENIED) THEN "RegistryPermissionError"
    ELSE IF code = Some(ERROR_DIR_NOT_EMPTY) THEN "RegistryKeyNotEmptyError"
    ELSE "RegistryError"

\* RegistryError.__init__(message, winerror=None, strerror=None); the message
\* is kept as the path, value name and counts it is composed from, and kind
\* tells the message templates apart.
RegistryError(cls, kind, path, name, counts, winerror, strerror) ==
    [cls |-> cls, winerror |-> winerror, strerror |-> strerror,
     path |-> path, name |-> name, counts |-> counts, kind |-> kind]

\* A normalizer that wraps whatever it is given.
handle_always_wraps(e, path, name) ==
    RegistryError(ERROR_MAP(e.winerror), "failed", Some(path), name, None,
                  e.winerror, e.strerror)

\* The exception _handle_winreg_error(e, path, name) raises.
handle_winreg_error(e, path, name) ==
    IF IsRegistryError(e) THEN e
    ELSE RegistryError(ERROR_MAP(e.winerror), "failed", Some(path), name, None,
                       e.winerror, e.strerror)

\* A try block without the except clause: x leaves it as it is.
except_nothing(x, path, name) == x

\* What leaves a try block whose "except OSError as e" clause calls
\* _handle_winreg_error(e, path, name), when x is raised inside it.
except_OSError(x, path, name) ==
    IF IsOSError(x) THEN handle_winreg_error(x, path, name) ELSE x

----------------------------------------------------------------------------
(* Values and the hive *)

\* Value names: "" is the key's default value.
Names == {"", "v"}

\* The order in which the OS enumerates the values of a key.
NameOrder == <<"", "v">>

\* Registry type tags
REG_NONE                       == 0
REG_SZ                         == 1
REG_EXPAND_SZ                  == 2
REG_BINARY                     == 3
REG_DWORD                      == 4
REG_DWORD_LITTLE_ENDIAN        == 4
REG_DWORD_BIG_ENDIAN           == 5
REG_LINK                       == 6
REG_MULTI_SZ                   == 7
REG_RESOURCE_LIST              == 8
REG_FULL_RESOURCE_DESCRIPTOR   == 9
REG_RESOURCE_REQUIREMENTS_LIST == 10
REG_QWORD                      == 11
REG_QWORD_LITTLE_ENDIAN        == 11

\* Python data: its type and a payload of integers.  An int n is the triple
\* <<a, b, c>> with n = a*2^60 + b*2^30 + c and 0 <= b, c < 2^30.
PyStr(cs)    == [ty |-> "str",   v |-> cs]
PyInt(a,b,c) == [ty |-> "int",   v |-> <<a, b, c>>]
PyBytes(bs)  == [ty |-> "bytes", v |-> bs]
\* A list: one integer per item, a string's identity if the item is a
\* string (>= 0), negative for an item of any other type.
PyList(xs)   == [ty |-> "list",  v |-> xs]
PyFloat      == [ty |-> "float", v |-> <<>>]

\* The (data, type) pairs the operation layer is called with: it trusts its
\* caller to pass data that fits the type.
WriteVals == {[data |-> PyStr(<<1>>), type |-> REG_SZ],
              [data |-> PyInt(0, 0, 1), type |-> REG_DWORD]}

\* A constructor that stores the data as given.
RegistryValue_as_given(name, data, value_type) ==
    [name |-> name, data |-> data, type |-> value_type]

\* RegistryValue(name, data, value_type): multi-string data given as a list
\* is stored as a tuple.
RegistryValue(name, data, value_type) ==
    [name |-> name,
     data |-> IF value_type = REG_MULTI_SZ /\ data.ty = "list"
              THEN [data EXCEPT !.ty = "tuple"] ELSE data,
     type |-> value_type]

EmptyVals == [n \in Names |-> None]

\* The hive right after installation of the OS model: only the root key.
EmptyHive == [k \in {<<>>} |-> EmptyVals]

\* The parent of a key in the hive: the path before its last backslash.
OSParent(k) ==
    LET I == {i \in 1..Len(k) : k[i] = SEP}
    IN  IF I = {} THEN <<>>
        ELSE SubSeq(k, 1, (CHOOSE i \in I : \A j \in I : j <= i) - 1)

\* A key and the keys above it, the root left out.
WithAncestors(k) ==
    {SubSeq(k, 1, i) : i \in {j \in 1..Len(k) : j = Len(k) \/ k[j + 1] = SEP}}

Children(r, k) == {c \in DOMAIN r : c # <<>> /\ OSParent(c) = k}

ValueNames(r, k) == SelectSeq(NameOrder, LAMBDA n : r[k][n] # None)

NumValues(r, k) == Len(ValueNames(r, k))

\* The subkeys of k in the order the OS enumerates them (shorter names first).
RECURSIVE SetToSeq(_)
SetToSeq(S) ==
    IF S = {} THEN <<>>
    ELSE LET x == CHOOSE y \in S : \A z \in S : Len(y) <= Len(z)
         IN  <<x>> \o SetToSeq(S \ {x})

\* The name of a key under its parent.
LeafName(c) == SubSeq(c, Len(OSParent(c)) + (IF OSParent(c) = <<>> THEN 1 ELSE 2), Len(c))

SubkeyNamesOf(r, k) ==
    LET s == SetToSeq(Children(r, k)) IN [i \in 1..Len(s) |-> LeafName(s[i])]

TotalValues(r) ==
    Cardinality({kn \in (DOMAIN r) \X Names : r[kn[1]][kn[2]] # None})

\* RegCreateKeyEx: the key and every missing key above it come to exist.
os_create_key(r, p) ==
    [k \in DOMAIN r \cup WithAncestors(p) |-> IF k \in DOMAIN r THEN r[k] ELSE EmptyVals]

\* RegSetValueEx
os_set_value(r, k, n, v) == [r EXCEPT ![k][n] = Some(v)]

\* RegDeleteValue
os_delete_value(r, k, n) == [r EXCEPT ![k][n] = None]

\* RegDeleteKey: the key goes with the values it holds.
os_delete_key(r, k) == [x \in (DOMAIN r) \ {k} |-> r[x]]

\* The key a subkey name denotes under an open key.
os_subkey(parent, name) ==
    IF parent = <<>> THEN name
    ELSE IF name = <<>> THEN parent
    ELSE parent \o <<SEP>> \o name

\* The FILETIME QueryInfoKey reports; the model keeps no clock.
LastWriteFiletime == <<"filetime">>

\* head_registry_key's conversion of a FILETIME to a UTC datetime.
filetime_to_datetime(ft) == <<"utc", ft>>

\* Access rights
KEY_READ               == "KEY_READ"
KEY_WRITE              == "KEY_WRITE"
KEY_SET_VALUE          == "KEY_SET_VALUE"
KEY_CREATE_SUB_KEY     == "KEY_CREATE_SUB_KEY"
KEY_ENUMERATE_SUB_KEYS == "KEY_ENUMERATE_SUB_KEYS"

----------------------------------------------------------------------------
(* The state of a call *)

NoPending == [kind |-> "none", exc |-> None, val |-> None]
Ret(v)    == [kind |-> "ret",  exc |-> None, val |-> Some(v)]
Exc(e)    == [kind |-> "exc",  exc |-> Some(e), val |-> None]

NoResult   == [kind |-> "none",  exc |-> None, val |-> None]
Returned(v) == [kind |-> "ok",    exc |-> None, val |-> Some(v)]
Raised(e)  == [kind |-> "raise", exc |-> Some(e), val |-> None]

\* Python's None as a return value
PyNone == [ty |-> "NoneType", v |-> <<>>]

\* A call of an operation-layer function.  full_path is the path the
\* function resolves first (the parent's path for put_registry_subkey),
\* target the path of the key the call is about.
OpRecord(name, key_path, root_prefix, value_name, value, subkey_name) ==
    LET full == join_registry_paths(root_prefix, key_path)
    IN  [name |-> name, key_path |-> key_path, root_prefix |-> root_prefix,
         value_name |-> value_name, value |-> value, subkey_name |-> subkey_name,
         value_data |-> None, value_type |-> None,
         full_path |-> full,
         target |-> IF name = "put_registry_subkey"
                    THEN join_registry_paths(full, subkey_name) ELSE full]

NoOp == [name |-> "none", key_path |-> <<>>, root_prefix |-> <<>>,
         value_name |-> "", value |-> None, subkey_name |-> <<>>,
         value_data |-> None, value_type |-> None,
         full_path |-> <<>>, target |-> <<>>]

WriteOps == {"put_registry_value", "put_registry_subkey",
             "delete_registry_value", "delete_registry_key"}
ReadOps  == {"get_registry_value", "list_registry_values",
             "list_registry_subkeys", "head_registry_key"}

\* The value name the operation passes to the error normalizer from its
\* outer "except OSError" clause.
OuterName(o) == IF o.name = "put_registry_value" THEN Some(o.value_name) ELSE None

\* The access right the operation opens its key with.
AccessOf(o) ==
    CASE o.name \in {"put_registry_value", "delete_registry_value"} -> KEY_SET_VALUE
      [] o.name = "list_registry_subkeys" -> KEY_ENUMERATE_SUB_KEYS
      [] OTHER -> KEY_READ

\* An entry of the trace: a primitive, the key path it was given (the path
\* of the handle for a primitive that takes a handle) and the OSError it
\* raised, None if it returned.
Called(f, path, err) == [f |-> f, path |-> path, err |-> err]

\* No RegistryRoot: the operation-layer functions are called directly.
NoRoot == [root_key |-> "none", root_prefix |-> <<>>, read_only |-> FALSE,
           ignore_elevation_check |-> FALSE, is_elevated_cached |-> "None"]

----------------------------------------------------------------------------
(* The operation layer: entry of a function up to its first primitive *)

\* raise ValueError("Cannot delete the root registry key.")
ValueErrorRoot ==
    [cls |-> "ValueError", winerror |-> None, strerror |-> None,
     path |-> None, name |-> None, counts |-> None, kind |-> "delete_root"]

\* A prologue in which delete_registry_key does not look at its path.
FirstPc_unguarded(o) ==
    IF o.name = "ensure_registry_key_exists"
    THEN (IF o.full_path = <<>> THEN "idle" ELSE "ensure_create")
    ELSE IF o.name = "put_registry_value"
    THEN (IF o.full_path = <<>> THEN "open" ELSE "ensure_create")
    ELSE IF o.name = "put_registry_subkey"
    THEN (IF o.full_path = <<>> THEN "create" ELSE "ensure_create")
    ELSE "open"

\* Read functions that begin by creating the key.
FirstPc_reads_create(o) ==
    IF o.name = "delete_registry_key"
    THEN (IF o.full_path = <<>> THEN "idle" ELSE "open")
    ELSE IF o.name = "put_registry_value" /\ o.full_path = <<>> THEN "open"
    ELSE IF o.name = "put_registry_subkey" /\ o.full_path = <<>> THEN "create"
    ELSE IF o.name = "ensure_registry_key_exists" /\ o.full_path = <<>> THEN "idle"
    ELSE IF o.name = "delete_registry_value" THEN "open"
    ELSE "ensure_create"

\* Where the function stands after its prologue.
FirstPc(o) ==
    IF o.name = "ensure_registry_key_exists"
    THEN (IF o.full_path = <<>> THEN "idle" ELSE "ensure_create")
    ELSE IF o.name = "put_registry_value"
    THEN (IF o.full_path = <<>> THEN "open" ELSE "ensure_create")
    ELSE IF o.name = "put_registry_subkey"
    THEN (IF o.full_path = <<>> THEN "create" ELSE "ensure_create")
    ELSE IF o.name = "delete_registry_key"
    THEN (IF o.full_path = <<>> THEN "idle" ELSE "open")
    ELSE "open"

\* How the function ended, if its prologue ended it.
FirstResult(o) ==
    IF o.name = "ensure_registry_key_exists" /\ o.full_path = <<>>
    THEN Returned(PyNone)
    ELSE IF o.name = "delete_registry_key" /\ o.full_path = <<>>
    THEN Raised(ValueErrorRoot)
    ELSE NoResult

\* A call starts: the locals are fresh and the hive is remembered.
Start(o) ==
    /\ op' = o
    /\ pre' = reg
    /\ trace' = <<>>
    /\ acc' = <<>>
    /\ pending' = NoPending
    /\ pc' = FirstPc(o)
    /\ result' = FirstResult(o)
    /\ UNCHANGED <<reg, handles>>

\* The model starts a creating call only for a key of KeyUniverse, and a
\* write of a new value only below MaxValues.
Creatable(p) == p = <<>> \/ p \in KeyUniverse

Writable(p, n) ==
    /\ Creatable(p)
    /\ \/ TotalValues(reg) < MaxValues
       \/ p \in DOMAIN reg /\ reg[p][n] # None

ensure_registry_key_exists(key_path, root_prefix) ==
    LET o == OpRecord("ensure_registry_key_exists", key_path, root_prefix, "", None, <<>>)
    IN  /\ pc = "idle" /\ root = NoRoot
        /\ Creatable(o.target)
        /\ Start(o)
        /\ UNCHANGED <<root, probes>>

put_registry_value(key_path, value_name, value, root_prefix) ==
    LET o == OpRecord("put_registry_value", key_path, root_prefix, value_name, Some(value), <<>>)
    IN  /\ pc = "idle" /\ root = NoRoot
        /\ Writable(o.target, value_name)
        /\ Start(o)
        /\ UNCHANGED <<root, probes>>

put_registry_subkey(key_path, subkey_name, root_prefix) ==
    LET o == OpRecord("put_registry_subkey", key_path, root_prefix, "", None, subkey_name)
    IN  /\ pc = "idle" /\ root = NoRoot
        /\ Creatable(o.full_path) /\ Creatable(o.target)
        /\ Start(o)
        /\ UNCHANGED <<root, probes>>

get_registry_value(key_path, value_name, root_prefix) ==
    /\ pc = "idle" /\ root = NoRoot
    /\ Start(OpRecord("get_registry_value", key_path, root_prefix, value_name, None, <<>>))
    /\ UNCHANGED <<root, probes>>

list_registry_values(key_path, root_prefix) ==
    /\ pc = "idle" /\ root = NoRoot
    /\ Start(OpRecord("list_registry_values", key_path, root_prefix, "", None, <<>>))
    /\ UNCHANGED <<root, probes>>

list_registry_subkeys(key_path, root_prefix) ==
    /\ pc = "idle" /\ root = NoRoot
    /\ Start(OpRecord("list_registry_subkeys", key_path, root_prefix, "", None, <<>>))
    /\ UNCHANGED <<root, probes>>

head_registry_key(key_path, root_prefix) ==
    /\ pc = "idle" /\ root = NoRoot
    /\ Start(OpRecord("head_registry_key", key_path, root_prefix, "", None, <<>>))
    /\ UNCHANGED <<root, probes>>

delete_registry_value(key_path, value_name, root_prefix) ==
    /\ pc = "idle" /\ root = NoRoot
    /\ Start(OpRecord("delete_registry_value", key_path, root_prefix, value_name, None, <<>>))
    /\ UNCHANGED <<root, probes>>

delete_registry_key(key_path, root_prefix) ==
    /\ pc = "idle" /\ root = NoRoot
    /\ Start(OpRecord("delete_registry_key", key_path, root_prefix, "", None, <<>>))
    /\ UNCHANGED <<root, probes>>

----------------------------------------------------------------------------
(* The winreg primitives, each with the code that runs after it *)

TopHandle == handles[Len(handles)]

\* The call ends.
Finish(r) == pc' = "idle" /\ result' = r

\* parent_full_path, subkey_name = os.path.split(full_path)
parent_full_path(o) == ntpath_split(o.full_path)[1]
subkey_name_of(o)   == ntpath_split(o.full_path)[2]

\* RegistryKey.__enter__ when OpenKey raised e: the "except OSError" clause
\* hands e to the normalizer with the key's path.
enter_except(e, subkey) == except_OSError(e, subkey, None)

\* get_registry_value's inner "except OSError" around QueryValueEx: what it
\* raises for ERROR_FILE_NOT_FOUND.
RegistryValueNotFoundError(o) ==
    RegistryError("RegistryValueNotFoundError", "value_not_found",
                  Some(o.full_path), Some(o.value_name), None, None, None)

\* An except clause that hands every failure of QueryValueEx to the
\* normalizer.
query_value_normalized(e, o) == handle_winreg_error(e, o.full_path, Some(o.value_name))

\* get_registry_value's inner "except OSError" around QueryValueEx.
query_value_except(e, o) ==
    IF e.winerror = Some(ERROR_FILE_NOT_FOUND)
    THEN RegistryValueNotFoundError(o)
    ELSE handle_winreg_error(e, o.full_path, Some(o.value_name))

\* delete_registry_key's check of the counts QueryInfoKey returned.
RegistryKeyNotEmptyError(o, num_subkeys, num_values) ==
    RegistryError("RegistryKeyNotEmptyError", "not_empty",
                  Some(o.full_path), None, Some(<<num_subkeys, num_values>>), None, None)

\* A check that looks at the subkey count only.
check_subkeys_only(o, num_subkeys, num_values) ==
    IF num_subkeys > 0
    THEN Exc(RegistryKeyNotEmptyError(o, num_subkeys, num_values))
    ELSE Ret(PyNone)

\* delete_registry_key: "if num_subkeys > 0 or num_values > 0: raise".
check_empty(o, num_subkeys, num_values) ==
    IF num_subkeys > 0 \/ num_values > 0
    THEN Exc(RegistryKeyNotEmptyError(o, num_subkeys, num_values))
    ELSE Ret(PyNone)

\* head_registry_key's result
head_result(num_subkeys, num_values, ft) ==
    [num_subkeys |-> num_subkeys, num_values |-> num_values,
     last_write_time |-> filetime_to_datetime(ft)]

\* winreg.CreateKeyEx(root_key, path, 0, KEY_WRITE) in
\* ensure_registry_key_exists and in put_registry_subkey.  On failure no
\* handle was obtained, the finally clause closes nothing and the except
\* clause normalizes the error with the path.
CreateKeyEx ==
    /\ pc \in {"ensure_create", "create"}
    /\ LET path == IF pc = "ensure_create" THEN op.full_path ELSE op.target
       IN  /\ \/ /\ trace' = Append(trace, Called("CreateKeyEx", path, None))
                 /\ reg' = os_create_key(reg, path)
                 /\ handles' = Append(handles, [path |-> path, access |-> KEY_WRITE])
                 /\ pc' = IF pc = "ensure_create" THEN "ensure_close" ELSE "create_close"
                 /\ UNCHANGED result
              \/ \E e \in Faults :
                 /\ trace' = Append(trace, Called("CreateKeyEx", path, Some(e)))
                 /\ Finish(Raised(except_OSError(e, path, None)))
                 /\ UNCHANGED <<reg, handles>>
    /\ UNCHANGED <<op, pending, acc, pre, root, probes>>

\* What follows the CloseKey that ends a block, by the block it ends.
after_close(at, o, p) ==
    IF at = "ensure_close"
    THEN (IF o.name = "put_registry_value" THEN [pc |-> "open", result |-> NoResult]
          ELSE IF o.name = "put_registry_subkey" THEN [pc |-> "create", result |-> NoResult]
          ELSE [pc |-> "idle", result |-> Returned(PyNone)])
    ELSE IF at = "create_close"
    THEN [pc |-> "idle", result |-> Returned(PyNone)]
    ELSE IF at = "close"
    THEN (IF p.kind = "exc"
          THEN [pc |-> "idle",
                result |-> Raised(except_OSError(p.exc[1], o.full_path, OuterName(o)))]
          ELSE IF o.name = "delete_registry_key"
          THEN [pc |-> "open_parent", result |-> NoResult]
          ELSE [pc |-> "idle", result |-> Returned(p.val[1])])
    ELSE (IF p.kind = "exc"
          THEN [pc |-> "idle",
                result |-> Raised(except_OSError(p.exc[1], parent_full_path(o), None))]
          ELSE [pc |-> "idle", result |-> Returned(PyNone)])

\* A block that keeps its handle.
exit_keeps_handle(hs, p) == hs

\* A block that closes its handle only when its body did not raise.
exit_on_success(hs, p) ==
    IF p.kind = "exc" THEN hs ELSE SubSeq(hs, 1, Len(hs) - 1)

\* The handles left open by RegistryKey.__exit__ and by the finally clause
\* after CreateKeyEx: the block's handle is closed whether or not the body
\* raised (p is what the body left pending).
exit_handles(hs, p) == SubSeq(hs, 1, Len(hs) - 1)

\* winreg.CloseKey(handle): the finally clause after CreateKeyEx and
\* RegistryKey.__exit__.
CloseKey ==
    /\ pc \in {"ensure_close", "create_close", "close", "close_parent"}
    /\ handles # <<>>
    /\ trace' = Append(trace, Called("CloseKey", TopHandle.path, None))
    /\ handles' = exit_handles(handles, pending)
    /\ LET n == after_close(pc, op, pending)
       IN  pc' = n.pc /\ result' = n.result
    /\ pending' = NoPending
    /\ UNCHANGED <<reg, op, acc, pre, root, probes>>

\* winreg.OpenKey(root_key, subkey, 0, access) in RegistryKey.__enter__.
\* A key that is not in the hive gives ERROR_FILE_NOT_FOUND.
OpenKey ==
    /\ pc \in {"open", "open_parent"}
    /\ LET path    == IF pc = "open" THEN op.full_path ELSE parent_full_path(op)
           access  == IF pc = "open" THEN AccessOf(op) ELSE KEY_CREATE_SUB_KEY
           outer   == IF pc = "open" THEN OuterName(op) ELSE None
           missing == IF path \in DOMAIN reg THEN {} ELSE {OSErr(ERROR_FILE_NOT_FOUND)}
       IN  /\ \/ /\ path \in DOMAIN reg
                 /\ trace' = Append(trace, Called("OpenKey", path, None))
                 /\ handles' = Append(handles, [path |-> path, access |-> access])
                 /\ pc' = IF pc = "open" THEN "body" ELSE "delete"
                 /\ UNCHANGED result
              \/ \E e \in missing \cup Faults :
                 /\ trace' = Append(trace, Called("OpenKey", path, Some(e)))
                 /\ Finish(Raised(except_OSError(enter_except(e, path), path, outer)))
                 /\ UNCHANGED handles
    /\ UNCHANGED <<reg, op, pending, acc, pre, root, probes>>

\* winreg.SetValueEx(key, value_name, 0, value_type, value_data)
SetValueEx ==
    /\ pc = "body" /\ op.name = "put_registry_value"
    /\ \/ /\ reg' = os_set_value(reg, TopHandle.path, op.value_name, op.value[1])
          /\ pending' = Ret(PyNone)
          /\ trace' = Append(trace, Called("SetValueEx", TopHandle.path, None))
       \/ \E e \in Faults :
          /\ pending' = Exc(e) /\ UNCHANGED reg
          /\ trace' = Append(trace, Called("SetValueEx", TopHandle.path, Some(e)))
    /\ pc' = "close"
    /\ UNCHANGED <<handles, op, acc, result, pre, root, probes>>

\* winreg.QueryValueEx(key, value_name)
QueryValueEx ==
    /\ pc = "body" /\ op.name = "get_registry_value"
    /\ LET stored  == reg[TopHandle.path][op.value_name]
           missing == IF stored = None THEN {OSErr(ERROR_FILE_NOT_FOUND)} ELSE {}
       IN  \/ /\ stored # None
              /\ pending' = Ret(RegistryValue(op.value_name, stored[1].data, stored[1].type))
              /\ trace' = Append(trace, Called("QueryValueEx", TopHandle.path, None))
           \/ \E e \in missing \cup Faults :
              /\ pending' = Exc(query_value_except(e, op))
              /\ trace' = Append(trace, Called("QueryValueEx", TopHandle.path, Some(e)))
    /\ pc' = "close"
    /\ UNCHANGED <<reg, handles, op, acc, result, pre, root, probes>>

\* An except clause that hands every code to the normalizer.
enum_except_strict(e, o, collected) ==
    Exc(handle_winreg_error(e, o.full_path, None))

\* An except clause that ends the loop on every code.
enum_except_partial(e, o, collected) == Ret(collected)

\* The except clause inside the enumeration loops: ERROR_NO_MORE_ITEMS ends
\* the loop, anything else goes to the normalizer.
enum_except(e, o, collected) ==
    IF e.winerror = Some(ERROR_NO_MORE_ITEMS)
    THEN Ret(collected)
    ELSE Exc(handle_winreg_error(e, o.full_path, None))

\* winreg.EnumValue(key, i), i the number of entries collected so far
EnumValue ==
    /\ pc = "body" /\ op.name = "list_registry_values"
    /\ LET k     == TopHandle.path
           names == ValueNames(reg, k)
           i     == Len(acc)
           done  == IF i < Len(names) THEN {} ELSE {OSErr(ERROR_NO_MORE_ITEMS)}
       IN  \/ /\ i < Len(names)
              /\ acc' = Append(acc, RegistryValue(names[i + 1],
                                    reg[k][names[i + 1]][1].data,
                                    reg[k][names[i + 1]][1].type))
              /\ trace' = Append(trace, Called("EnumValue", TopHandle.path, None))
              /\ UNCHANGED <<pc, pending>>
           \/ \E e \in done \cup Faults :
              /\ trace' = Append(trace, Called("EnumValue", TopHandle.path, Some(e)))
              /\ pending' = enum_except(e, op, acc)
              /\ pc' = "close"
              /\ UNCHANGED acc
    /\ UNCHANGED <<reg, handles, op, result, pre, root, probes>>

\* winreg.EnumKey(key, i)
EnumKey ==
    /\ pc = "body" /\ op.name = "list_registry_subkeys"
    /\ LET names == SubkeyNamesOf(reg, TopHandle.path)
           i     == Len(acc)
           done  == IF i < Len(names) THEN {} ELSE {OSErr(ERROR_NO_MORE_ITEMS)}
       IN  \/ /\ i < Len(names)
              /\ acc' = Append(acc, names[i + 1])
              /\ trace' = Append(trace, Called("EnumKey", TopHandle.path, None))
              /\ UNCHANGED <<pc, pending>>
           \/ \E e \in done \cup Faults :
              /\ trace' = Append(trace, Called("EnumKey", TopHandle.path, Some(e)))
              /\ pending' = enum_except(e, op, acc)
              /\ pc' = "close"
              /\ UNCHANGED acc
    /\ UNCHANGED <<reg, handles, op, result, pre, root, probes>>

\* winreg.QueryInfoKey(key) in head_registry_key and in phase 1 of
\* delete_registry_key; neither has an except clause inside the with block.
QueryInfoKey ==
    /\ pc = "body" /\ op.name \in {"head_registry_key", "delete_registry_key"}
    /\ LET k  == TopHandle.path
           ns == Cardinality(Children(reg, k))
           nv == NumValues(reg, k)
       IN  \/ /\ pending' = IF op.name = "head_registry_key"
                            THEN Ret(head_result(ns, nv, LastWriteFiletime))
                            ELSE check_empty(op, ns, nv)
              /\ trace' = Append(trace, Called("QueryInfoKey", k, None))
           \/ \E e \in Faults :
              /\ pending' = Exc(e)
              /\ trace' = Append(trace, Called("QueryInfoKey", k, Some(e)))
    /\ pc' = "close"
    /\ UNCHANGED <<reg, handles, op, acc, result, pre, root, probes>>

\* An except clause that swallows nothing.
delete_value_strict(e, o) == Exc(handle_winreg_error(e, o.full_path, Some(o.value_name)))

\* delete_registry_value's inner "except OSError" around DeleteValue.
delete_value_except(e, o) ==
    IF e.winerror = Some(ERROR_FILE_NOT_FOUND)
    THEN Ret(PyNone)
    ELSE Exc(handle_winreg_error(e, o.full_path, Some(o.value_name)))

\* winreg.DeleteValue(key, value_name)
DeleteValue ==
    /\ pc = "body" /\ op.name = "delete_registry_value"
    /\ LET k       == TopHandle.path
           missing == IF reg[k][op.value_name] = None
                      THEN {OSErr(ERROR_FILE_NOT_FOUND)} ELSE {}
       IN  \/ /\ reg[k][op.value_name] # None
              /\ reg' = os_delete_value(reg, k, op.value_name)
              /\ pending' = Ret(PyNone)
              /\ trace' = Append(trace, Called("DeleteValue", k, None))
           \/ \E e \in missing \cup Faults :
              /\ pending' = delete_value_except(e, op)
              /\ trace' = Append(trace, Called("DeleteValue", k, Some(e)))
              /\ UNCHANGED reg
    /\ pc' = "close"
    /\ UNCHANGED <<handles, op, acc, result, pre, root, probes>>

\* delete_registry_key's inner "except OSError" around DeleteKey.
delete_key_except(e, o) == Exc(handle_winreg_error(e, o.full_path, None))

\* winreg.DeleteKey(parent_key_handle, subkey_name): the OS refuses a key
\* that is not there (ERROR_FILE_NOT_FOUND) or that has subkeys
\* (ERROR_ACCESS_DENIED).
DeleteKey ==
    /\ pc = "delete"
    /\ LET k      == os_subkey(TopHandle.path, subkey_name_of(op))
           here   == k \in DOMAIN reg /\ k # <<>>
           refuse == IF ~here THEN {OSErr(ERROR_FILE_NOT_FOUND)}
                     ELSE IF Children(reg, k) # {} THEN {OSErr(ERROR_ACCESS_DENIED)}
                     ELSE {}
       IN  /\ \/ /\ here /\ Children(reg, k) = {}
                 /\ trace' = Append(trace, Called("DeleteKey", k, None))
                 /\ reg' = os_delete_key(reg, k)
                 /\ pending' = Ret(PyNone)
              \/ \E e \in refuse \cup Faults :
                 /\ trace' = Append(trace, Called("DeleteKey", k, Some(e)))
                 /\ pending' = delete_key_except(e, op)
                 /\ UNCHANGED reg
    /\ pc' = "close_parent"
    /\ UNCHANGED <<handles, op, acc, result, pre, root, probes>>

----------------------------------------------------------------------------
(* The operation layer called directly *)

Init ==
    /\ reg = EmptyHive
    /\ handles = <<>>
    /\ pc = "idle"
    /\ op = NoOp
    /\ pending = NoPending
    /\ acc = <<>>
    /\ result = NoResult
    /\ pre = EmptyHive
    /\ trace = <<>>
    /\ root = NoRoot
    /\ probes = 0

Next ==
    \/ \E k \in KeyPaths, p \in Prefixes : ensure_registry_key_exists(k, p)
    \/ \E k \in KeyPaths, n \in Names, v \in WriteVals, p \in Prefixes :
          put_registry_value(k, n, v, p)
    \/ \E k \in KeyPaths, s \in SubkeyNames, p \in Prefixes : put_registry_subkey(k, s, p)
    \/ \E k \in KeyPaths, n \in Names, p \in Prefixes : get_registry_value(k, n, p)
    \/ \E k \in KeyPaths, p \in Prefixes : list_registry_values(k, p)
    \/ \E k \in KeyPaths, p \in Prefixes : list_registry_subkeys(k, p)
    \/ \E k \in KeyPaths, p \in Prefixes : head_registry_key(k, p)
    \/ \E k \in KeyPaths, n \in Names, p \in Prefixes : delete_registry_value(k, n, p)
    \/ \E k \in KeyPaths, p \in Prefixes : delete_registry_key(k, p)
    \/ CreateKeyEx \/ CloseKey \/ OpenKey \/ SetValueEx \/ QueryValueEx
    \/ EnumValue \/ EnumKey \/ QueryInfoKey \/ DeleteValue \/ DeleteKey

Spec == Init /\ [][Next]_vars

----------------------------------------------------------------------------
(* The type translator (registry_translation.py) *)

\* x < y in place of x <= y
IntLT(x, y) ==
    \/ x[1] < y[1]
    \/ x[1] = y[1] /\ x[2] < y[2]
    \/ x[1] = y[1] /\ x[2] = y[2] /\ x[3] < y[3]

\* x <= y for integers held as <<a, b, c>>
IntLE(x, y) ==
    \/ x[1] < y[1]
    \/ x[1] = y[1] /\ x[2] < y[2]
    \/ x[1] = y[1] /\ x[2] = y[2] /\ x[3] <= y[3]

\* -2**31, 2**32 - 1, -2**63, 2**64 - 1
MIN_DWORD == <<-1, 1073741822, 0>>
MAX_DWORD == << 0, 3, 1073741823>>
MIN_QWORD == <<-8, 0, 0>>
MAX_QWORD == <<15, 1073741823, 1073741823>>

PyError(cls, kind) ==
    [cls |-> cls, winerror |-> None, strerror |-> None,
     path |-> None, name |-> None, counts |-> None, kind |-> kind]

Ok(data, type) == [ok |-> TRUE, data |-> data, type |-> type, exc |-> None]
Fail(e)        == [ok |-> FALSE, data |-> PyNone, type |-> 0, exc |-> Some(e)]

\* The keys of _REG_TYPE_NAMES
REG_TYPE_NAMES ==
    {REG_NONE, REG_SZ, REG_EXPAND_SZ, REG_BINARY, REG_DWORD, REG_DWORD_BIG_ENDIAN,
     REG_LINK, REG_MULTI_SZ, REG_RESOURCE_LIST, REG_FULL_RESOURCE_DESCRIPTOR,
     REG_RESOURCE_REQUIREMENTS_LIST, REG_QWORD}

\* A type given as an integer, and as a string of characters
TypeInt(n) == [ty |-> "int", n |-> n]
TypeStr(cs) == [ty |-> "str", s |-> cs]

\* The string "REG" followed by the given words, each after an underscore;
\* a string is the sequence of its characters.
RECURSIVE RegName(_)
RegName(words) ==
    LET W == [REG |-> <<"R", "E", "G">>,
              NONE |-> <<"N", "O", "N", "E">>,
              SZ |-> <<"S", "Z">>,
              EXPAND |-> <<"E", "X", "P", "A", "N", "D">>,
              BINARY |-> <<"B", "I", "N", "A", "R", "Y">>,
              DWORD |-> <<"D", "W", "O", "R", "D">>,
              QWORD |-> <<"Q", "W", "O", "R", "D">>,
              BIG |-> <<"B", "I", "G">>,
              LITTLE |-> <<"L", "I", "T", "T", "L", "E">>,
              ENDIAN |-> <<"E", "N", "D", "I", "A", "N">>,
              LINK |-> <<"L", "I", "N", "K">>,
              MULTI |-> <<"M", "U", "L", "T", "I">>,
              RESOURCE |-> <<"R", "E", "S", "O", "U", "R", "C", "E">>,
              LIST |-> <<"L", "I", "S", "T">>,
              FULL |-> <<"F", "U", "L", "L">>,
              DESCRIPTOR |-> <<"D", "E", "S", "C", "R", "I", "P", "T", "O", "R">>,
              REQUIREMENTS |-> <<"R", "E", "Q", "U", "I", "R", "E", "M", "E", "N", "T", "S">>]
    IN  IF words = <<>> THEN W.REG
        ELSE RegName(SubSeq(words, 1, Len(words) - 1)) \o <<"_">> \o W[words[Len(words)]]

\* _REG_TYPE_NAMES: the name of each key
REG_TYPE_NAMES_get(n) ==
    CASE n = REG_NONE                       -> RegName(<<"NONE">>)
      [] n = REG_SZ                         -> RegName(<<"SZ">>)
      [] n = REG_EXPAND_SZ                  -> RegName(<<"EXPAND", "SZ">>)
      [] n = REG_BINARY                     -> RegName(<<"BINARY">>)
      [] n = REG_DWORD                      -> RegName(<<"DWORD">>)
      [] n = REG_DWORD_BIG_ENDIAN           -> RegName(<<"DWORD", "BIG", "ENDIAN">>)
      [] n = REG_LINK                       -> RegName(<<"LINK">>)
      [] n = REG_MULTI_SZ                   -> RegName(<<"MULTI", "SZ">>)
      [] n = REG_RESOURCE_LIST              -> RegName(<<"RESOURCE", "LIST">>)
      [] n = REG_FULL_RESOURCE_DESCRIPTOR   -> RegName(<<"FULL", "RESOURCE", "DESCRIPTOR">>)
      [] n = REG_RESOURCE_REQUIREMENTS_LIST -> RegName(<<"RESOURCE", "REQUIREMENTS", "LIST">>)
      [] n = REG_QWORD                      -> RegName(<<"QWORD">>)

\* get_reg_type_name
get_reg_type_name(reg_type) ==
    IF reg_type \in REG_TYPE_NAMES THEN REG_TYPE_NAMES_get(reg_type)
    ELSE <<"UnknownType(", ToString(reg_type), ")">>

\* _REG_NAME_TO_TYPE = {name: value for value, name in _REG_TYPE_NAMES.items()}
REG_NAME_TO_TYPE ==
    [name \in {REG_TYPE_NAMES_get(n) : n \in REG_TYPE_NAMES} |->
        CHOOSE n \in REG_TYPE_NAMES : REG_TYPE_NAMES_get(n) = name]

\* str.upper() on the ASCII letters
str_upper(cs) ==
    LET lower == <<"a", "b", "c", "d", "e", "f", "g", "h", "i", "j", "k", "l", "m",
                   "n", "o", "p", "q", "r", "s", "t", "u", "v", "w", "x", "y", "z">>
        upper == <<"A", "B", "C", "D", "E", "F", "G", "H", "I", "J", "K", "L", "M",
                   "N", "O", "P", "Q", "R", "S", "T", "U", "V", "W", "X", "Y", "Z">>
    IN  [i \in 1..Len(cs) |->
            IF \E j \in 1..26 : lower[j] = cs[i]
            THEN upper[CHOOSE j \in 1..26 : lower[j] = cs[i]] ELSE cs[i]]

\* The constants of winreg named REG_* that are no value types: the masks
\* REG_LEGAL_OPTION and REG_LEGAL_CHANGE_FILTER; the other option, result
\* and notify constants have values between 0 and 8.
REG_LEGAL_OPTION        == 31
REG_LEGAL_CHANGE_FILTER == 268435471

\* {v for k, v in winreg.__dict__.items() if k.startswith("REG_")}
all_known_types ==
    REG_TYPE_NAMES \cup {REG_DWORD_LITTLE_ENDIAN, REG_QWORD_LITTLE_ENDIAN}
        \cup {0, 1, 2, 4, 8} \cup {REG_LEGAL_OPTION, REG_LEGAL_CHANGE_FILTER}

\* _normalize_registry_type_input
normalize_registry_type_input(type_input) ==
    IF type_input.ty = "int"
    THEN (IF type_input.n \in REG_TYPE_NAMES THEN Ok(PyNone, type_input.n)
          ELSE IF type_input.n = REG_DWORD_LITTLE_ENDIAN THEN Ok(PyNone, REG_DWORD)
          ELSE IF type_input.n = REG_QWORD_LITTLE_ENDIAN THEN Ok(PyNone, REG_QWORD)
          ELSE IF type_input.n \in all_known_types THEN Ok(PyNone, type_input.n)
          ELSE Fail(PyError("ValueError", "unknown_type")))
    ELSE IF type_input.ty = "str"
    THEN LET upper_name == str_upper(type_input.s)
         IN  IF upper_name \in DOMAIN REG_NAME_TO_TYPE
             THEN Ok(PyNone, REG_NAME_TO_TYPE[upper_name])
             ELSE IF upper_name = RegName(<<"DWORD", "LITTLE", "ENDIAN">>)
             THEN Ok(PyNone, REG_DWORD)
             ELSE IF upper_name = RegName(<<"QWORD", "LITTLE", "ENDIAN">>)
             THEN Ok(PyNone, REG_QWORD)
             ELSE Fail(PyError("ValueError", "unknown_name"))
    ELSE Fail(PyError("TypeError", "type_input"))

\* An inference that takes everything for a string.
infer_always_sz(data) == Ok(data, REG_SZ)

\* An inference that widens: every integer gets a tag, the 64-bit one
\* when it is the first that fits.
infer_widening(data) ==
    IF data.ty = "str" THEN Ok(data, REG_SZ)
    ELSE IF data.ty = "int"
    THEN (IF data.v[1] = 0 /\ data.v[2] < 4 THEN Ok(data, REG_DWORD)
          ELSE Ok(data, REG_QWORD))
    ELSE IF data.ty = "bytes" THEN Ok(data, REG_BINARY)
    ELSE IF data.ty = "list" THEN Ok(data, REG_MULTI_SZ)
    ELSE Fail(PyError("TypeError", "unsupported"))

\* _infer_registry_type_for_new_value
infer_registry_type_for_new_value(data) ==
    IF data.ty = "str" THEN Ok(data, REG_SZ)
    ELSE IF data.ty = "int"
    THEN (IF ~(IntLE(MIN_DWORD, data.v) /\ IntLE(data.v, MAX_DWORD))
          THEN Fail(PyError("ValueError", "dword_range"))
          ELSE Ok(data, REG_DWORD))
    ELSE IF data.ty = "bytes" THEN Ok(data, REG_BINARY)
    ELSE IF data.ty = "list"
    THEN (IF \A i \in 1..Len(data.v) : data.v[i] >= 0
          THEN Ok(data, REG_MULTI_SZ)
          ELSE Fail(PyError("TypeError", "list_items")))
    ELSE Fail(PyError("TypeError", "unsupported"))

\* _validate_and_convert_data_for_type
validate_and_convert_data_for_type(data, target_type) ==
    IF target_type \in {REG_SZ, REG_EXPAND_SZ, REG_LINK}
    THEN (IF data.ty # "str" THEN Fail(PyError("TypeError", "not_str"))
          ELSE Ok(data, target_type))
    ELSE IF target_type \in {REG_DWORD, REG_DWORD_LITTLE_ENDIAN, REG_DWORD_BIG_ENDIAN}
    THEN (IF data.ty # "int" THEN Fail(PyError("TypeError", "not_int"))
          ELSE IF ~(IntLE(MIN_DWORD, data.v) /\ IntLE(data.v, MAX_DWORD))
          THEN Fail(PyError("ValueError", "dword_range"))
          ELSE Ok(data, target_type))
    ELSE IF target_type \in {REG_QWORD, REG_QWORD_LITTLE_ENDIAN}
    THEN (IF data.ty # "int" THEN Fail(PyError("TypeError", "not_int"))
          ELSE IF ~(IntLE(MIN_QWORD, data.v) /\ IntLE(data.v, MAX_QWORD))
          THEN Fail(PyError("ValueError", "qword_range"))
          ELSE Ok(data, target_type))
    ELSE IF target_type = REG_BINARY
    THEN (IF data.ty # "bytes" THEN Fail(PyError("TypeError", "not_bytes"))
          ELSE Ok(data, target_type))
    ELSE IF target_type = REG_MULTI_SZ
    THEN (IF data.ty # "list" \/ ~(\A i \in 1..Len(data.v) : data.v[i] >= 0)
          THEN Fail(PyError("TypeError", "not_list_of_str"))
          ELSE Ok(data, target_type))
    ELSE IF target_type = REG_NONE THEN Ok(PyNone, target_type)
    ELSE IF target_type \in {REG_RESOURCE_LIST, REG_FULL_RESOURCE_DESCRIPTOR,
                             REG_RESOURCE_REQUIREMENTS_LIST}
    THEN (IF data.ty # "bytes" THEN Fail(PyError("TypeError", "not_bytes"))
          ELSE Ok(data, target_type))
    ELSE Fail(PyError("TypeError", "unsupported_target"))

\* A facade that hands the caller's data to the operation layer unexamined.
resolve_nothing(value_data, value_type) == Ok(value_data, REG_SZ)

\* RegistryRoot.put_registry_value between the permission check and the
\* call of the operation layer: infer the type, or normalize the given type
\* and validate the data against it.
resolve_value(value_data, value_type) ==
    IF value_type = None
    THEN infer_registry_type_for_new_value(value_data)
    ELSE LET t == normalize_registry_type_input(value_type[1])
         IN  IF t.ok THEN validate_and_convert_data_for_type(value_data, t.type)
             ELSE t

----------------------------------------------------------------------------
(* The scoped root facade (registry_interface.py) *)

Hives == {"HKEY_CLASSES_ROOT", "HKEY_CURRENT_USER", "HKEY_LOCAL_MACHINE",
          "HKEY_USERS", "HKEY_CURRENT_CONFIG"}

ELEVATION_REQUIRED_ROOT_KEYS ==
    {"HKEY_LOCAL_MACHINE", "HKEY_USERS", "HKEY_CLASSES_ROOT", "HKEY_CURRENT_CONFIG"}

\* A constructor that leaves the cache unset whatever the flag.
RegistryRoot_cache_unset(root_key, root_prefix, read_only, ignore_elevation_check) ==
    [root_key |-> root_key, root_prefix |-> root_prefix, read_only |-> read_only,
     ignore_elevation_check |-> ignore_elevation_check,
     is_elevated_cached |-> "None"]

\* RegistryRoot.__init__
RegistryRoot(root_key, root_prefix, read_only, ignore_elevation_check) ==
    [root_key |-> root_key, root_prefix |-> root_prefix, read_only |-> read_only,
     ignore_elevation_check |-> ignore_elevation_check,
     is_elevated_cached |-> IF ignore_elevation_check THEN "True" ELSE "None"]

\* A permission check that looks at the elevation state before read_only.
check_elevation_first(r) ==
    IF r.root_key \in ELEVATION_REQUIRED_ROOT_KEYS /\ r.is_elevated_cached = "None"
    THEN "probe"
    ELSE IF r.root_key \in ELEVATION_REQUIRED_ROOT_KEYS /\ r.is_elevated_cached # "True"
    THEN "denied_not_elevated"
    ELSE IF r.read_only THEN "denied_read_only"
    ELSE "permitted"

\* A permission check that probes once and never looks at the cached answer.
check_cache_unread(r) ==
    IF r.read_only THEN "denied_read_only"
    ELSE IF r.root_key \in ELEVATION_REQUIRED_ROOT_KEYS /\ r.is_elevated_cached = "None"
    THEN "probe"
    ELSE "permitted"

\* A permission check that probes on every call.
check_always_probe(r) ==
    IF r.read_only THEN "denied_read_only"
    ELSE IF r.root_key \in ELEVATION_REQUIRED_ROOT_KEYS THEN "probe"
    ELSE "permitted"

\* RegistryRoot._check_write_permission up to the call of is_elevated():
\* "denied" verdicts raise, "probe" calls is_elevated(), "permitted" returns.
check_write_permission(r) ==
    IF r.read_only THEN "denied_read_only"
    ELSE IF r.root_key \in ELEVATION_REQUIRED_ROOT_KEYS
    THEN (IF r.is_elevated_cached = "None" THEN "probe"
          ELSE IF r.is_elevated_cached # "True" THEN "denied_not_elevated"
          ELSE "permitted")
    ELSE "permitted"

RegistryPermissionError(kind) ==
    RegistryError("RegistryPermissionError", kind, None, None, None, None, None)

\* A call that ends before the operation layer is reached.
EndEarly(o, r) ==
    /\ op' = o
    /\ pre' = reg
    /\ trace' = <<>>
    /\ acc' = <<>>
    /\ pending' = NoPending
    /\ pc' = "idle"
    /\ result' = r
    /\ UNCHANGED <<reg, handles>>

\* The facade method after _check_write_permission returned: the call of the
\* operation-layer function, for put_registry_value after the type and data
\* were resolved.
Delegate(o) ==
    IF o.name = "put_registry_value"
    THEN LET r == resolve_value(o.value_data[1], o.value_type)
         IN  IF r.ok
             THEN Start([o EXCEPT !.value = Some([data |-> r.data, type |-> r.type])])
             ELSE EndEarly(o, Raised(r.exc[1]))
    ELSE Start(o)

\* A write or delete method of RegistryRoot up to the elevation probe.
RootWrite(o) ==
    /\ pc = "idle" /\ root # NoRoot
    /\ LET c == check_write_permission(root)
       IN  IF c = "probe"
           THEN /\ probes < MaxProbes
                /\ op' = o /\ pre' = reg /\ trace' = <<>> /\ acc' = <<>>
                /\ pending' = NoPending /\ pc' = "probe" /\ result' = NoResult
                /\ UNCHANGED <<reg, handles>>
           ELSE IF c = "permitted" THEN Delegate(o)
           ELSE EndEarly(o, Raised(RegistryPermissionError(c)))
    /\ UNCHANGED <<root, probes>>

\* A read method of RegistryRoot: the operation-layer function is called
\* with the instance's hive and prefix.
RootRead(o) ==
    /\ pc = "idle" /\ root # NoRoot
    /\ Start(o)
    /\ UNCHANGED <<root, probes>>

\* An OSError raised by is_elevated()
ProbeFaults == {OSErr(ERROR_ACCESS_DENIED), OSErrNoCode}

\* No except clause around is_elevated(): the OSError leaves as it is.
probe_reraise(e) == e

\* _check_write_permission's "except OSError as e" around is_elevated():
\* the failure is wrapped in a RegistryPermissionError without code.
probe_except(e) == RegistryPermissionError("probe_failed")

\* is_elevated() called from _check_write_permission, and the rest of the
\* facade method.
is_elevated ==
    /\ pc = "probe"
    /\ probes' = probes + 1
    /\ \/ /\ root' = [root EXCEPT !.is_elevated_cached = "True"]
          /\ Delegate(op)
       \/ /\ root' = [root EXCEPT !.is_elevated_cached = "False"]
          /\ EndEarly(op, Raised(RegistryPermissionError("denied_not_elevated")))
       \/ \E e \in ProbeFaults :
          /\ UNCHANGED root
          /\ EndEarly(op, Raised(probe_except(e)))

\* The arguments the facade methods are called with.
RootKeyPaths  == {<<>>, PathB, <<SEP>> \o PathB}
RootNames     == {"v"}
RootData      == {PyStr(<<1>>), PyInt(0, 0, 1), PyFloat}
\* An integer that is no REG_* constant
UnknownType   == TypeInt(99)
RootTypes     == {None, Some(TypeInt(REG_SZ)), Some(UnknownType)}

RootOp(name, key_path, value_name, subkey_name) ==
    OpRecord(name, key_path, root.root_prefix, value_name, None, subkey_name)

RegistryRoot_put_registry_value(key_path, value_name, value_data, value_type) ==
    LET o == [RootOp("put_registry_value", key_path, value_name, <<>>)
                EXCEPT !.value_data = Some(value_data), !.value_type = value_type]
    IN  Writable(o.target, value_name) /\ RootWrite(o)

RegistryRoot_put_registry_subkey(key_path, subkey_name) ==
    LET o == RootOp("put_registry_subkey", key_path, "", subkey_name)
    IN  Creatable(o.full_path) /\ Creatable(o.target) /\ RootWrite(o)

RegistryRoot_delete_registry_value(key_path, value_name) ==
    RootWrite(RootOp("delete_registry_value", key_path, value_name, <<>>))

RegistryRoot_delete_registry_key(key_path) ==
    RootWrite(RootOp("delete_registry_key", key_path, "", <<>>))

RegistryRoot_get_registry_value(key_path, value_name) ==
    RootRead(RootOp("get_registry_value", key_path, value_name, <<>>))

RegistryRoot_list_registry_values(key_path) ==
    RootRead(RootOp("list_registry_values", key_path, "", <<>>))

RegistryRoot_list_registry_subkeys(key_path) ==
    RootRead(RootOp("list_registry_subkeys", key_path, "", <<>>))

RegistryRoot_head_registry_key(key_path) ==
    RootRead(RootOp("head_registry_key", key_path, "", <<>>))

\* A RegistryRoot instance has been constructed over an empty hive.
InitRoot ==
    /\ reg = EmptyHive
    /\ handles = <<>>
    /\ pc = "idle"
    /\ op = NoOp
    /\ pending = NoPending
    /\ acc = <<>>
    /\ result = NoResult
    /\ pre = EmptyHive
    /\ trace = <<>>
    /\ \E h \in Hives, p \in Prefixes, ro \in BOOLEAN, ig \in BOOLEAN :
          root = RegistryRoot(h, p, ro, ig)
    /\ probes = 0

NextRoot ==
    \/ \E k \in RootKeyPaths, n \in RootNames, d \in RootData, t \in RootTypes :
          RegistryRoot_put_registry_value(k, n, d, t)
    \/ \E k \in RootKeyPaths, s \in SubkeyNames : RegistryRoot_put_registry_subkey(k, s)
    \/ \E k \in RootKeyPaths, n \in RootNames : RegistryRoot_delete_registry_value(k, n)
    \/ \E k \in RootKeyPaths : RegistryRoot_delete_registry_key(k)
    \/ \E k \in RootKeyPaths, n \in RootNames : RegistryRoot_get_registry_value(k, n)
    \/ \E k \in RootKeyPaths : RegistryRoot_list_registry_values(k)
    \/ \E k \in RootKeyPaths : RegistryRoot_list_registry_subkeys(k)
    \/ \E k \in RootKeyPaths : RegistryRoot_head_registry_key(k)
    \/ is_elevated
    \/ CreateKeyEx \/ CloseKey \/ OpenKey \/ SetValueEx \/ QueryValueEx
    \/ EnumValue \/ EnumKey \/ QueryInfoKey \/ DeleteValue \/ DeleteKey

SpecRoot == InitRoot /\ [][NextRoot]_vars

----------------------------------------------------------------------------
(* The error normalizer called on its own *)

\* The error codes the normalizer is given: 0 .. MaxCode and no code.
MaxCode == 260

RawErrors == {OSErr(c) : c \in 0 .. MaxCode} \cup {OSErrNoCode}

\* A raw OSError has been caught in an except clause of some function at
\* key path PathA or PathB.
InitNorm ==
    /\ reg = EmptyHive
    /\ handles = <<>>
    /\ pc = "except"
    /\ \E k \in {PathA, PathB} :
          op = OpRecord("handle_winreg_error", k, <<>>, "v", None, <<>>)
    /\ \E e \in RawErrors : pending = Exc(e)
    /\ acc = <<>>
    /\ result = NoResult
    /\ pre = EmptyHive
    /\ trace = <<>>
    /\ root = NoRoot
    /\ probes = 0

\* _handle_winreg_error(e, path, name) is called with or without a name.
handle_winreg_error_call ==
    /\ pc = "except"
    /\ \E name \in {None, Some(op.value_name)} :
          result' = Raised(handle_winreg_error(pending.exc[1], op.full_path, name))
    /\ pc' = "idle"
    /\ UNCHANGED <<reg, handles, op, pending, acc, pre, trace, root, probes>>

NextNorm == handle_winreg_error_call

SpecNorm == InitNorm /\ [][NextNorm]_vars

----------------------------------------------------------------------------
(* Writing and reading back through the facade *)

\* Data of every kind put_registry_value accepts: strings, integers up to
\* 2**32 - 1, bytes, lists of strings, each in two instances.
PutData ==
    {PyStr(<<1>>), PyStr(<<>>), PyInt(0, 0, 1), PyInt(0, 3, 1073741823),
     PyBytes(<<7>>), PyBytes(<<>>), PyList(<<1, 2>>), PyList(<<>>)}

\* No type, and types given as integers.
PutTypes ==
    {None, Some(TypeInt(REG_SZ)), Some(TypeInt(REG_EXPAND_SZ)), Some(TypeInt(REG_QWORD)),
     Some(TypeInt(REG_BINARY)), Some(TypeInt(REG_NONE))}

\* A writable RegistryRoot with prefix A on a hive that needs no elevation;
\* the calls are about the value v of its key B, which is not there at first.
PutKeyPaths == {PathB}

InitPut ==
    /\ reg = EmptyHive
    /\ handles = <<>>
    /\ pc = "idle"
    /\ op = NoOp
    /\ pending = NoPending
    /\ acc = <<>>
    /\ result = NoResult
    /\ pre = EmptyHive
    /\ trace = <<>>
    /\ root = RegistryRoot("HKEY_CURRENT_USER", PathA, FALSE, FALSE)
    /\ probes = 0

NextPut ==
    \/ \E k \in PutKeyPaths, n \in RootNames, d \in PutData, t \in PutTypes :
          RegistryRoot_put_registry_value(k, n, d, t)
    \/ \E k \in PutKeyPaths, n \in RootNames : RegistryRoot_get_registry_value(k, n)
    \/ CreateKeyEx \/ CloseKey \/ OpenKey \/ SetValueEx \/ QueryValueEx

SpecPut == InitPut /\ [][NextPut]_vars

----------------------------------------------------------------------------
(* The operation layer with another process writing to the hive *)

\* The other process creates a key.
other_create_key ==
    /\ \E k \in KeyUniverse \ DOMAIN reg : reg' = os_create_key(reg, k)
    /\ UNCHANGED <<handles, pc, op, pending, acc, result, pre, trace, root, probes>>

\* The other process sets a value of a key.
other_set_value ==
    /\ \E k \in DOMAIN reg \ {<<>>}, n \in Names :
          /\ reg[k][n] = None /\ TotalValues(reg) < MaxValues
          /\ reg' = os_set_value(reg, k, n, [data |-> PyStr(<<2>>), type |-> REG_SZ])
    /\ UNCHANGED <<handles, pc, op, pending, acc, result, pre, trace, root, probes>>

\* The other process deletes a key that has no subkeys, at a moment when
\* the call in progress holds no handle on it.
other_delete_key ==
    /\ \E k \in DOMAIN reg \ {<<>>} :
          /\ Children(reg, k) = {}
          /\ \A i \in DOMAIN handles : handles[i].path # k
          /\ reg' = os_delete_key(reg, k)
    /\ UNCHANGED <<handles, pc, op, pending, acc, result, pre, trace, root, probes>>

\* put_registry_value and delete_registry_key, the primitives they invoke,
\* and the other process.
NextEnv ==
    \/ \E k \in {PathA, PathAB}, n \in Names :
          put_registry_value(k, n, [data |-> PyStr(<<1>>), type |-> REG_SZ], <<>>)
    \/ \E k \in {PathA, PathAB} : delete_registry_key(k, <<>>)
    \/ CreateKeyEx \/ CloseKey \/ OpenKey \/ SetValueEx \/ QueryInfoKey \/ DeleteKey
    \/ other_create_key \/ other_set_value \/ other_delete_key

SpecEnv == Init /\ [][NextEnv]_vars

----------------------------------------------------------------------------
(* The functions without state, each called on its own *)

\* Data of every shape: strings; bytes; lists of strings; lists with an
\* item that is no string; a float, None, a tuple; the integers at and next
\* to the ends of the 32-bit and 64-bit ranges (-2**31 - 1, -2**31,
\* 2**32 - 1, 2**32, -2**63 - 1, -2**63, 2**64 - 1, 2**64) and -1, 0, 1.
TransData ==
    {PyStr(<<1>>), PyStr(<<>>), PyBytes(<<7>>), PyBytes(<<>>),
     PyList(<<>>), PyList(<<1, 2>>), PyList(<<1, -1>>), PyList(<<-1>>),
     PyFloat, PyNone, [ty |-> "tuple", v |-> <<1>>],
     PyInt(-1, 1073741821, 1073741823), PyInt(-1, 1073741822, 0),
     PyInt(0, 3, 1073741823), PyInt(0, 4, 0),
     PyInt(-9, 1073741823, 1073741823), PyInt(-8, 0, 0),
     PyInt(15, 1073741823, 1073741823), PyInt(16, 0, 0),
     PyInt(-1, 1073741823, 1073741823), PyInt(0, 0, 0), PyInt(0, 0, 1)}

\* The type inputs normalize_registry_type is called with: integers that
\* are registry types or not, names in upper, lower and mixed case, names
\* that are no type names, and inputs that are neither int nor str.
TransTypeInputs ==
    LET names == {get_reg_type_name(n) : n \in REG_TYPE_NAMES}
                    \cup {RegName(<<"DWORD", "LITTLE", "ENDIAN">>),
                          RegName(<<"QWORD", "LITTLE", "ENDIAN">>),
                          RegName(<<"LITTLE">>), RegName(<<>>), <<>>}
        letters == {"a", "b", "c", "d", "e", "f", "g", "h", "i", "j", "k", "l", "m",
                    "n", "o", "p", "q", "r", "s", "t", "u", "v", "w", "x", "y", "z"}
        low(c) == IF \E l \in letters : str_upper(<<l>>) = <<c>>
                  THEN CHOOSE l \in letters : str_upper(<<l>>) = <<c>> ELSE c
    IN  {TypeInt(n) : n \in REG_TYPE_NAMES \cup {-1, 12, 99, REG_LEGAL_OPTION, REG_LEGAL_CHANGE_FILTER}}
            \cup {TypeStr(cs) : cs \in names}
            \cup {TypeStr([i \in 1..Len(cs) |-> low(cs[i])]) : cs \in names}
            \cup {TypeStr(<<low(cs[1])>> \o Tail(cs)) : cs \in names \ {<<>>}}
            \cup {[ty |-> "float"], [ty |-> "NoneType"], [ty |-> "list"]}

\* _infer_registry_type_for_new_value(data) returns (data, type)
infer_registry_type_call ==
    /\ pc = "idle"
    /\ \E d \in TransData :
          LET r == infer_registry_type_for_new_value(d)
          IN  /\ op' = [NoOp EXCEPT !.name = "infer_registry_type_for_new_value", !.value_data = Some(d),
                                    !.value_type = None]
              /\ result' = IF r.ok THEN Returned(<<r.data, r.type>>) ELSE Raised(r.exc[1])
    /\ UNCHANGED <<reg, handles, pc, pending, acc, pre, trace, root, probes>>

\* _validate_and_convert_data_for_type(data, target_type) returns the data
validate_and_convert_call ==
    /\ pc = "idle"
    /\ \E d \in TransData, t \in REG_TYPE_NAMES \cup {99} :
          LET r == validate_and_convert_data_for_type(d, t)
          IN  /\ op' = [NoOp EXCEPT !.name = "validate_and_convert_data_for_type", !.value_data = Some(d),
                                    !.value_type = Some(TypeInt(t))]
              /\ result' = IF r.ok THEN Returned(r.data) ELSE Raised(r.exc[1])
    /\ UNCHANGED <<reg, handles, pc, pending, acc, pre, trace, root, probes>>

\* normalize_registry_type(type_input) returns an integer
normalize_registry_type_call ==
    /\ pc = "idle"
    /\ \E t \in TransTypeInputs :
          LET r == normalize_registry_type_input(t)
          IN  /\ op' = [NoOp EXCEPT !.name = "normalize_registry_type", !.value_data = None,
                                    !.value_type = Some(t)]
              /\ result' = IF r.ok THEN Returned(r.type) ELSE Raised(r.exc[1])
    /\ UNCHANGED <<reg, handles, pc, pending, acc, pre, trace, root, probes>>

\* get_reg_type_name(reg_type) returns a name
get_reg_type_name_call ==
    /\ pc = "idle"
    /\ \E n \in REG_TYPE_NAMES \cup {99, REG_LEGAL_OPTION} :
          /\ op' = [NoOp EXCEPT !.name = "get_reg_type_name",
                                !.value_data = None, !.value_type = Some(TypeInt(n))]
          /\ result' = Returned(get_reg_type_name(n))
    /\ UNCHANGED <<reg, handles, pc, pending, acc, pre, trace, root, probes>>

\* The strings _join_registry_paths is called with: up to two characters,
\* each a letter or one of the two separators.
JoinPaths ==
    LET chars == {"A", SEP, ALT}
    IN  {<<>>} \cup {<<c>> : c \in chars} \cup {<<c, d>> : c \in chars, d \in chars}

\* _join_registry_paths(prefix, path) returns the joined path
join_registry_paths_call ==
    /\ pc = "idle"
    /\ \E prefix \in JoinPaths, path \in JoinPaths :
          /\ op' = [NoOp EXCEPT !.name = "join_registry_paths",
                                !.root_prefix = prefix, !.key_path = path]
          /\ result' = Returned(join_registry_paths(prefix, path))
    /\ UNCHANGED <<reg, handles, pc, pending, acc, pre, trace, root, probes>>

\* RegistryValue.__eq__(self, other) for another RegistryValue; data of
\* the model are equal in Python when they are the same record, a list
\* never being equal to a tuple.
RegistryValue_eq(self, other) ==
    self.name = other.name /\ self.data = other.data /\ self.type = other.type

\* RegistryValue.__eq__(self, other) for a tuple (name, data, type)
RegistryValue_eq_tuple(self, other) ==
    IF self.type = REG_MULTI_SZ /\ other[2].ty = "list"
    THEN /\ self.name = other[1]
         /\ self.data = [ty |-> "tuple", v |-> other[2].v]
         /\ self.type = other[3]
    ELSE self.name = other[1] /\ self.data = other[2] /\ self.type = other[3]

\* RegistryValue.__hash__: the hash of (name, data, type), equal for equal
\* tuples; a tuple that holds a list has none.
RegistryValue_hash(self) ==
    IF self.data.ty = "list" THEN Raised(PyError("TypeError", "unhashable"))
    ELSE Returned(<<self.name, self.data, self.type>>)

\* Two records are built from triples and compared, and both are hashed;
\* or a record is built and compared with a bare tuple.
RegistryValue_compare_call ==
    /\ pc = "idle"
    /\ LET ValueTriples ==
            {[name |-> n, data |-> d, type |-> t] :
                n \in Names,
                d \in {PyStr(<<1>>), PyInt(0, 0, 1), PyList(<<1, 2>>), PyList(<<1>>),
                       [ty |-> "tuple", v |-> <<1, 2>>]},
                t \in {REG_SZ, REG_MULTI_SZ}}
      IN
      \E x \in ValueTriples, y \in ValueTriples, form \in {"record", "tuple"} :
          LET a == RegistryValue(x.name, x.data, x.type)
              b == RegistryValue(y.name, y.data, y.type)
          IN  /\ op' = [NoOp EXCEPT !.name = "RegistryValue_compare",
                                    !.value = Some([a |-> x, b |-> y, form |-> form])]
              /\ result' = Returned(
                    [eq |-> IF form = "record" THEN RegistryValue_eq(a, b)
                            ELSE RegistryValue_eq_tuple(a, <<y.name, y.data, y.type>>),
                     hash_a |-> RegistryValue_hash(a),
                     hash_b |-> IF form = "record" THEN RegistryValue_hash(b) ELSE NoResult])
    /\ UNCHANGED <<reg, handles, pc, pending, acc, pre, trace, root, probes>>

NextTrans ==
    \/ RegistryValue_compare_call
    \/ infer_registry_type_call
    \/ validate_and_convert_call
    \/ normalize_registry_type_call
    \/ get_reg_type_name_call
    \/ join_registry_paths_call

SpecTrans == Init /\ [][NextTrans]_vars

----------------------------------------------------------------------------
(* Properties of the operation layer, checked under Spec *)

\* The call in progress invoked primitive f.
Invoked(f) == \E i \in DOMAIN trace : trace[i].f = f

\* The call in progress had primitive f raise an OSError with code c.
FailedWith(f, c) ==
    \E i \in DOMAIN trace :
        trace[i].f = f /\ trace[i].err # None /\ trace[i].err[1].winerror = Some(c)

\* Some primitive of the call in progress raised.
SomeFailure == \E i \in DOMAIN trace : trace[i].err # None

\* The OSError the call's failing primitive raised (a call has at most one).
TheFailure ==
    LET i == CHOOSE i \in DOMAIN trace : trace[i].err # None IN trace[i].err[1]

\* The call has ended: it returned or raised.
Ended == pc = "idle" /\ result.kind # "none"

\* C1: whenever an operation has ended, by returning or by raising, every
\* handle it obtained has been closed: no handle is open outside a call,
\* and the call made one CloseKey for each handle it obtained.
C1_HandlesClosed ==
    /\ pc = "idle" => handles = <<>>
    /\ pc = "idle" =>
          Cardinality({i \in DOMAIN trace : trace[i].f = "CloseKey"})
            = Cardinality({i \in DOMAIN trace :
                             /\ trace[i].f \in {"CreateKeyEx", "OpenKey"}
                             /\ trace[i].err = None})

\* C1's case: a call raised because a primitive failed on an open handle,
\* and the handle is closed.
C1_Witness ==
    /\ Ended /\ result.kind = "raise"
    /\ Invoked("OpenKey") /\ Invoked("CloseKey")
    /\ \E f \in {"SetValueEx", "QueryValueEx", "EnumValue", "DeleteKey"} :
          FailedWith(f, ERROR_ACCESS_DENIED)

\* The subkey and value counts of key k in hive h.
Counts(h, k) == <<Cardinality(Children(h, k)), NumValues(h, k)>>

\* In the call in progress a successful f came before some g.
Precedes(f, g) ==
    \E i, j \in DOMAIN trace :
        i < j /\ trace[i].f = f /\ trace[i].err = None /\ trace[j].f = g

\* C4: when delete_registry_key's count query reports a subkey or a value,
\* the call raises RegistryKeyNotEmptyError carrying exactly the two counts,
\* the parent key is never opened, DeleteKey is never invoked and the hive
\* is as it was; DeleteKey is invoked only after a count query that
\* reported 0 subkeys and 0 values.
C4_NonEmptyDeleteGuard ==
    LET k == op.full_path IN
    /\ (op.name = "delete_registry_key" /\ k \in DOMAIN pre /\ k # <<>>
         /\ Counts(pre, k) # <<0, 0>>) =>
          /\ pc \notin {"open_parent", "delete", "close_parent"}
          /\ ~Invoked("DeleteKey")
          /\ \A i \in DOMAIN trace : trace[i].f = "OpenKey" => i = 1 /\ trace[i].path = k
          /\ reg = pre
          /\ (Ended /\ Precedes("QueryInfoKey", "CloseKey")) =>
                result = Raised(RegistryKeyNotEmptyError(op, Counts(pre, k)[1],
                                                         Counts(pre, k)[2]))
    /\ Invoked("DeleteKey") =>
          /\ op.name = "delete_registry_key"
          /\ k \in DOMAIN pre
          /\ Counts(pre, k) = <<0, 0>>
          /\ Precedes("QueryInfoKey", "DeleteKey")

\* C4's case: a key with a value and no subkey was refused.
C4_Witness ==
    /\ Ended /\ op.name = "delete_registry_key"
    /\ result.kind = "raise"
    /\ result.exc[1].cls = "RegistryKeyNotEmptyError"
    /\ result.exc[1].counts = Some(<<0, 1>>)
    /\ op.full_path \in DOMAIN reg

\* C5: get_registry_value raises RegistryKeyNotFoundError exactly when
\* OpenKey failed with ERROR_FILE_NOT_FOUND, and RegistryValueNotFoundError
\* (never RegistryKeyNotFoundError) exactly when the key opened and
\* QueryValueEx failed with that same code; the handle is closed either way.
C5_NotFoundByStep ==
    (op.name = "get_registry_value" /\ Ended) =>
        LET cls == IF result.kind = "raise" THEN result.exc[1].cls ELSE "none" IN
        /\ FailedWith("OpenKey", ERROR_FILE_NOT_FOUND)
              <=> cls = "RegistryKeyNotFoundError"
        /\ FailedWith("QueryValueEx", ERROR_FILE_NOT_FOUND)
              <=> cls = "RegistryValueNotFoundError"
        /\ cls = "RegistryValueNotFoundError" =>
              /\ result.exc[1].name = Some(op.value_name)
              /\ trace[1] = Called("OpenKey", op.full_path, None)
        /\ handles = <<>>

\* C5's case: the key opened, the value was not there.
C5_Witness ==
    /\ op.name = "get_registry_value" /\ Ended
    /\ FailedWith("QueryValueEx", ERROR_FILE_NOT_FOUND)
    /\ result.exc[1].cls = "RegistryValueNotFoundError"
    /\ Invoked("CloseKey")

\* C6: delete_registry_value returns normally and leaves the hive as it was
\* when the key is there and the value is not; delete_registry_key raises
\* RegistryKeyNotFoundError when the key is not there, and so does
\* delete_registry_value.
C6_DeleteAsymmetry ==
    LET k == op.full_path
        unfaulted == \A i \in DOMAIN trace :
                        trace[i].err # None => trace[i].err[1] = OSErr(ERROR_FILE_NOT_FOUND)
    IN
    (Ended /\ unfaulted /\ k # <<>>) =>
        /\ (op.name = "delete_registry_value" /\ k \in DOMAIN pre
             /\ pre[k][op.value_name] = None) =>
               /\ result = Returned(PyNone)
               /\ reg = pre
               /\ FailedWith("DeleteValue", ERROR_FILE_NOT_FOUND)
        /\ (op.name \in {"delete_registry_value", "delete_registry_key"}
             /\ k \notin DOMAIN pre) =>
               /\ result.kind = "raise"
               /\ result.exc[1].cls = "RegistryKeyNotFoundError"
               /\ reg = pre

\* C6's case: the value was deleted a second time and the call returned.
C6_Witness ==
    /\ Ended /\ op.name = "delete_registry_value"
    /\ FailedWith("DeleteValue", ERROR_FILE_NOT_FOUND)
    /\ result = Returned(PyNone)

----------------------------------------------------------------------------
(* Properties of the RegistryRoot facade, checked under SpecRoot *)

\* The facade method reached the operation-layer function: the function is
\* running, or it invoked a primitive, or it returned, or it raised the
\* ValueError of its own prologue.
Delegated ==
    \/ pc \notin {"idle", "probe"}
    \/ trace # <<>>
    \/ result.kind = "ok"
    \/ result.kind = "raise" /\ result.exc[1] = ValueErrorRoot

\* C2: on a read-only root every write or delete method raises
\* RegistryPermissionError at once: no elevation probe is made, the
\* operation layer is not reached, no primitive is invoked and the hive is
\* as it was.
C2_ReadOnlyRejectsWrites ==
    (root.read_only /\ op.name \in WriteOps) =>
        /\ pc = "idle"
        /\ result = Raised(RegistryPermissionError("denied_read_only"))
        /\ ~Delegated
        /\ probes = 0
        /\ root.is_elevated_cached = RegistryRoot(root.root_key, root.root_prefix,
                TRUE, root.ignore_elevation_check).is_elevated_cached
        /\ reg = pre

\* C2's case: a delete on a read-only root of an elevation-required hive,
\* whose elevation state was never probed, was rejected.
C2_Witness ==
    /\ root.read_only /\ root.root_key = "HKEY_LOCAL_MACHINE"
    /\ ~root.ignore_elevation_check
    /\ op.name = "delete_registry_key"
    /\ result.kind = "raise"

\* C3: on a writable root of an elevation-required hive built without
\* ignore_elevation_check, once the probe has answered "not elevated" every
\* write or delete method raises RegistryPermissionError without reaching
\* the operation layer, and a write or delete reaches the operation layer
\* only while the cached elevation state is True.
C3_NotElevatedRejectsWrites ==
    (/\ root.root_key \in ELEVATION_REQUIRED_ROOT_KEYS
     /\ ~root.read_only
     /\ op.name \in WriteOps) =>
        /\ root.is_elevated_cached = "False" =>
              /\ ~root.ignore_elevation_check
              /\ pc = "idle"
              /\ result = Raised(RegistryPermissionError("denied_not_elevated"))
              /\ ~Delegated
              /\ reg = pre
        /\ Delegated => root.is_elevated_cached = "True"

\* C3's case: the probe answered "not elevated" and a write was rejected.
C3_Witness ==
    /\ root.root_key = "HKEY_USERS" /\ ~root.read_only
    /\ root.is_elevated_cached = "False"
    /\ op.name = "put_registry_value"
    /\ result = Raised(RegistryPermissionError("denied_not_elevated"))

\* C7: when a primitive or the elevation probe failed with an OSError, the
\* exception the call raises is a RegistryError or one of its subclasses;
\* no call ever raises a bare OSError.
C7_NoRawOSError ==
    result.kind = "raise" =>
        /\ result.exc[1].cls # "OSError"
        /\ (SomeFailure \/ result.exc[1] \in {probe_except(e) : e \in ProbeFaults})
              => IsRegistryError(result.exc[1])

\* C7's case: a facade call whose primitive failed with a code the error
\* table does not list raised the generic RegistryError.
C7_Witness ==
    /\ Ended /\ root # NoRoot
    /\ FailedWith("QueryInfoKey", ERROR_ALREADY_EXISTS)
    /\ op.name = "head_registry_key"
    /\ result.kind = "raise" /\ result.exc[1].cls = "RegistryError"

----------------------------------------------------------------------------
(* Properties of the error normalizer, checked under SpecNorm *)

\* C8: the class of the exception the normalizer raises for a raw OSError
\* depends on the error code alone: 2 gives RegistryKeyNotFoundError, 5
\* RegistryPermissionError, 247 RegistryKeyNotEmptyError, and any other code
\* or no code gives RegistryError itself.
C8_NormalizerTable ==
    (op.name = "handle_winreg_error" /\ pc = "idle") =>
        LET c == pending.exc[1].winerror
            cls == result.exc[1].cls
        IN  /\ result.kind = "raise"
            /\ c = Some(2) => cls = "RegistryKeyNotFoundError"
            /\ c = Some(5) => cls = "RegistryPermissionError"
            /\ c = Some(247) => cls = "RegistryKeyNotEmptyError"
            /\ c \notin {Some(2), Some(5), Some(247)} => cls = "RegistryError"

\* C8's case: codes 183 and 206 and a missing code are among the inputs;
\* here the normalizer was given ERROR_ALREADY_EXISTS with a value name.
C8_Witness ==
    /\ op.name = "handle_winreg_error" /\ pc = "idle"
    /\ pending.exc[1].winerror = Some(ERROR_ALREADY_EXISTS)
    /\ result.exc[1].name = Some("v")
    /\ result.exc[1].cls = "RegistryError"

\* C8's case for ERROR_FILENAME_EXCED_RANGE.
C8_Witness206 ==
    /\ op.name = "handle_winreg_error" /\ pc = "idle"
    /\ pending.exc[1].winerror = Some(ERROR_FILENAME_EXCED_RANGE)
    /\ result.exc[1].cls = "RegistryError"

\* C8's case for an OSError without code.
C8_WitnessNoCode ==
    /\ op.name = "handle_winreg_error" /\ pc = "idle"
    /\ pending.exc[1] = OSErrNoCode
    /\ result.exc[1].cls = "RegistryError"

----------------------------------------------------------------------------
(* Statements the code does not meet, checked under Spec *)

\* C9: an exception raised because a primitive failed with code c and
\* message m carries winerror = c and strerror = m, whatever the operation
\* and the failing step.
C9_ErrorsCarryOSCode ==
    (Ended /\ result.kind = "raise" /\ SomeFailure) =>
        /\ result.exc[1].winerror = TheFailure.winerror
        /\ result.exc[1].strerror = TheFailure.strerror

\* The same statement for every exception but get_registry_value's
\* RegistryValueNotFoundError.
C9_OtherErrorsCarryOSCode ==
    (Ended /\ result.kind = "raise" /\ SomeFailure
     /\ result.exc[1].cls # "RegistryValueNotFoundError") =>
        /\ result.exc[1].winerror = TheFailure.winerror
        /\ result.exc[1].strerror = TheFailure.strerror

\* C10: a call that raised left the hive as it was before the call.
C10_AllOrNothing ==
    (Ended /\ result.kind = "raise") => reg = pre

\* The same statement for every operation but the two that create the key
\* before their own step.
C10_OthersAllOrNothing ==
    (Ended /\ result.kind = "raise"
     /\ op.name \notin {"put_registry_value", "put_registry_subkey"}) => reg = pre

----------------------------------------------------------------------------
(* More properties of the RegistryRoot facade, checked under SpecRoot *)

\* The instance lets a write through: it is not read-only and its hive
\* needs no elevation or its cache holds True.
WritePermitted ==
    /\ root # NoRoot /\ ~root.read_only
    /\ \/ root.root_key \notin ELEVATION_REQUIRED_ROOT_KEYS
       \/ root.is_elevated_cached = "True"

\* C11: RegistryRoot.put_registry_value reaches the operation layer only
\* with a resolved type and data; when inference (a float without type),
\* normalization (an unknown type) or validation (data that is no string
\* for REG_SZ) fails, the call raises without reaching the operation layer,
\* no primitive is invoked and the hive is as it was.
C11_ValidationBeforeDelegation ==
    (root # NoRoot /\ op.name = "put_registry_value") =>
        LET d == op.value_data[1]
            t == op.value_type
            bad == \/ t = None /\ d.ty = "float"
                   \/ t = Some(UnknownType)
                   \/ t = Some(TypeInt(REG_SZ)) /\ d.ty # "str"
        IN  /\ bad =>
                  /\ ~Delegated
                  /\ reg = pre
                  /\ Ended /\ WritePermitted =>
                        /\ result.kind = "raise"
                        /\ result.exc[1].cls \in {"TypeError", "ValueError"}
            /\ Delegated => ~bad /\ op.value # None

\* C11's case: a float without type was refused on an instance that lets
\* writes through.
C11_Witness ==
    /\ WritePermitted /\ Ended
    /\ op.name = "put_registry_value"
    /\ op.value_type = None /\ op.value_data = Some(PyFloat)
    /\ result.kind = "raise" /\ result.exc[1].cls = "TypeError"

----------------------------------------------------------------------------
(* Writing and reading back, checked under SpecPut *)

\* The tag a value is expected to be stored with: the given one, or for
\* data without type 1 (string), 4 (integer), 3 (bytes), 7 (list).
ExpectedTag(d, t) ==
    IF t # None THEN t[1].n
    ELSE IF d.ty = "str" THEN 1
    ELSE IF d.ty = "int" THEN 4
    ELSE IF d.ty = "bytes" THEN 3
    ELSE 7

\* What a read of the stored value [data, type] is expected to return under
\* name n: a list comes back as a tuple.
ExpectedRead(n, stored) ==
    [name |-> n, type |-> stored.type,
     data |-> IF stored.data.ty = "list"
              THEN [ty |-> "tuple", v |-> stored.data.v] ELSE stored.data]

\* A facade put_registry_value has returned.
PutReturned ==
    root # NoRoot /\ op.name = "put_registry_value" /\ Ended /\ result.kind = "ok"

\* A facade get_registry_value has returned.
GetReturned ==
    root # NoRoot /\ op.name = "get_registry_value" /\ Ended /\ result.kind = "ok"

\* C12 as stated: after a put that returned, the key is there and holds
\* under the name the written data with the inferred or given tag, whatever
\* was there before; a get that returned gives the name, the stored tag and
\* the stored data, a list as its tuple.
C12_RoundTripAnyType ==
    /\ PutReturned =>
          /\ op.target \in DOMAIN reg
          /\ reg[op.target][op.value_name] =
                Some([data |-> op.value_data[1],
                      type |-> ExpectedTag(op.value_data[1], op.value_type)])
    /\ GetReturned =>
          /\ reg[op.full_path][op.value_name] # None
          /\ result.val[1] = ExpectedRead(op.value_name, reg[op.full_path][op.value_name][1])

\* C12, amended: the same, except that a put with the type REG_NONE stores
\* the null marker in place of the written data.
C12_RoundTrip ==
    /\ PutReturned =>
          LET tag == ExpectedTag(op.value_data[1], op.value_type) IN
          /\ op.target \in DOMAIN reg
          /\ reg[op.target][op.value_name] =
                Some([data |-> IF tag = 0 THEN PyNone ELSE op.value_data[1],
                      type |-> tag])
    /\ GetReturned =>
          /\ reg[op.full_path][op.value_name] # None
          /\ result.val[1] = ExpectedRead(op.value_name, reg[op.full_path][op.value_name][1])

\* C12's case: a list written without type over a value that was there
\* was read back as a tuple with tag REG_MULTI_SZ.
C12_Witness ==
    /\ GetReturned
    /\ result.val[1] = [name |-> "v", type |-> REG_MULTI_SZ,
                         data |-> [ty |-> "tuple", v |-> <<1, 2>>]]
    /\ op.full_path # <<>>

\* C12's case of a second put: the value held something else before.
C12_WitnessReplace ==
    /\ PutReturned
    /\ op.target \in DOMAIN pre
    /\ pre[op.target][op.value_name] # None
    /\ pre[op.target][op.value_name] # reg[op.target][op.value_name]

\* The instance probes before a write: it is not read-only, was built
\* without ignore_elevation_check and its hive requires elevation.
Probing ==
    /\ root # NoRoot /\ ~root.read_only /\ ~root.ignore_elevation_check
    /\ root.root_key \in ELEVATION_REQUIRED_ROOT_KEYS

\* The exceptions the facade itself raises to refuse a write.
Refusals ==
    {RegistryPermissionError(k) :
        k \in {"denied_read_only", "denied_not_elevated", "probe_failed"}}

\* C13: is_elevated() is called only inside a write or delete call on an
\* instance that probes and whose cache is unset; an instance that is
\* read-only, ignores the check or is bound to another hive never calls it,
\* and no write on a writable instance that ignores the check is refused
\* by the facade.
C13_ProbeOnlyOnFirstWrite ==
    /\ pc = "probe" =>
          /\ op.name \in WriteOps
          /\ Probing
          /\ root.is_elevated_cached = "None"
    /\ ~Probing => probes = 0
    /\ (root # NoRoot /\ root.ignore_elevation_check /\ ~root.read_only
         /\ op.name \in WriteOps /\ result.kind = "raise")
          => result.exc[1] \notin Refusals

\* C13's case: a delete on a probing instance with unset cache is at the
\* call of is_elevated().
C13_Witness ==
    /\ pc = "probe" /\ op.name = "delete_registry_value"
    /\ root.root_key = "HKEY_CLASSES_ROOT" /\ root.is_elevated_cached = "None"

\* C14: the cache changes only from unset to True or to False, and only
\* when is_elevated() returns; once it holds a boolean no step changes it
\* and no step calls is_elevated().
C14_CacheMonotonic ==
    [][/\ root'.is_elevated_cached # root.is_elevated_cached =>
             /\ root.is_elevated_cached = "None"
             /\ root'.is_elevated_cached \in {"True", "False"}
             /\ pc = "probe" /\ probes' = probes + 1
       /\ root.is_elevated_cached # "None" =>
             /\ root' = root
             /\ probes' = probes
             /\ pc' # "probe"]_vars

\* C14's case: with the cache holding True after one probe, a later write
\* went to the operation layer and a primitive was invoked.
C14_Witness ==
    /\ Probing /\ root.is_elevated_cached = "True" /\ probes = 1
    /\ op.name = "put_registry_subkey" /\ Ended
    /\ reg # EmptyHive /\ pre # EmptyHive

\* C15: when is_elevated() raised an OSError the call raises
\* RegistryPermissionError, the operation layer is not reached, the hive is
\* as it was and the cache stays unset; the next write or delete call
\* calls is_elevated() again.
C15_ProbeFailure ==
    /\ [](( Probing /\ op.name \in WriteOps /\ pc = "idle"
             /\ root.is_elevated_cached = "None") =>
              /\ result = Raised(RegistryPermissionError("probe_failed"))
              /\ ~Delegated
              /\ reg = pre)
    /\ [][(/\ pc = "idle" /\ result = Raised(RegistryPermissionError("probe_failed"))
            /\ op'.name \in WriteOps) => pc' = "probe"]_vars

\* C15's case: the probe failed in a second write call as it had in the
\* first.
C15_Witness ==
    /\ Probing /\ probes = 2 /\ root.is_elevated_cached = "None"
    /\ pc = "idle" /\ result = Raised(RegistryPermissionError("probe_failed"))

----------------------------------------------------------------------------
(* More properties of the operation layer, checked under Spec *)

\* C16: delete_registry_key with an empty prefix and an empty key path
\* raises ValueError at once: no primitive is invoked, no handle is open
\* and the hive is as it was.
C16_DeleteRootRejected ==
    (op.name = "delete_registry_key" /\ op.root_prefix = <<>> /\ op.key_path = <<>>) =>
        /\ pc = "idle"
        /\ result = Raised(ValueErrorRoot)
        /\ trace = <<>>
        /\ handles = <<>>
        /\ reg = pre

\* C16's case: the root of a hive that holds a key was refused.
C16_Witness ==
    /\ op.name = "delete_registry_key" /\ op.full_path = <<>>
    /\ result.kind = "raise" /\ result.exc[1].cls = "ValueError"
    /\ PathA \in DOMAIN reg

----------------------------------------------------------------------------
(* Statements the facade does not meet, checked under SpecRoot *)

\* C17: RegistryRoot.delete_registry_key with an empty key_path raises
\* ValueError whatever the prefix: no primitive is invoked, and on an
\* instance that lets writes through the call ends with ValueError.
C17_EmptyKeyPathRejected ==
    (root # NoRoot /\ op.name = "delete_registry_key" /\ op.key_path = <<>>) =>
        /\ trace = <<>>
        /\ reg = pre
        /\ (WritePermitted /\ pc # "probe") => result = Raised(ValueErrorRoot)

\* The same statement for instances without prefix.
C17_EmptyKeyPathRejectedNoPrefix ==
    (root # NoRoot /\ root.root_prefix = <<>>
     /\ op.name = "delete_registry_key" /\ op.key_path = <<>>) =>
        /\ trace = <<>>
        /\ reg = pre
        /\ (WritePermitted /\ pc # "probe") => result = Raised(ValueErrorRoot)

\* p is the prefix or lies below it.
Within(prefix, p) ==
    \/ p = prefix
    \/ /\ Len(p) > Len(prefix) + 1
       /\ SubSeq(p, 1, Len(prefix) + 1) = prefix \o <<SEP>>

\* C18: on an instance with a non-empty prefix every key a primitive is
\* invoked on is the prefix key or lies below it.
C18_PrefixConfinement ==
    (root # NoRoot /\ root.root_prefix # <<>>) =>
        \A i \in DOMAIN trace : Within(root.root_prefix, trace[i].path)

\* The same statement for the calls whose key_path does not begin with a
\* separator, delete_registry_key with an empty key_path left aside.
C18_OthersConfined ==
    (/\ root # NoRoot /\ root.root_prefix # <<>>
     /\ ~(op.name = "delete_registry_key" /\ op.key_path = <<>>)
     /\ (op.key_path = <<>> \/ ~IsSep(op.key_path[1]))) =>
        \A i \in DOMAIN trace : Within(root.root_prefix, trace[i].path)

----------------------------------------------------------------------------
(* Enumeration, checked under Spec *)

\* The call in progress is one of the two listing operations.
Listing == op.name \in {"list_registry_values", "list_registry_subkeys"}

\* The primitive a listing operation enumerates with.
EnumF == IF op.name = "list_registry_values" THEN "EnumValue" ELSE "EnumKey"

\* The enumeration calls of the call in progress, in the order made: the
\* i-th of them queried index i - 1.
EnumCalls == SelectSeq(trace, LAMBDA c : c.f = EnumF)

\* What the key holds, in the order of the OS: its values as entries, or
\* the names of its subkeys.
ExpectedList ==
    LET k == op.full_path IN
    IF k \notin DOMAIN reg THEN <<>>
    ELSE IF op.name = "list_registry_values"
    THEN LET names == SelectSeq(<<"", "v">>, LAMBDA n : reg[k][n] # None)
         IN  [i \in 1..Len(names) |->
                 [name |-> names[i], data |-> reg[k][names[i]][1].data,
                  type |-> reg[k][names[i]][1].type]]
    ELSE SubkeyNamesOf(reg, k)

\* C19: a listing operation queries indexes 0, 1, 2, ... in order, a
\* failed query being the last; the entries collected are the first
\* entries of the key in the order of the OS; code 259 is reported at the
\* first index past the entries and then the call returns exactly the
\* entries of the key, the empty list for an empty key; code 259 never
\* comes out as an exception, and the call returns only after code 259.
C19_EnumerationToEnd ==
    Listing =>
        LET calls == EnumCalls
            exp   == ExpectedList
            good  == {i \in DOMAIN calls : calls[i].err = None}
        IN  /\ \A i \in DOMAIN calls : calls[i].err # None => i = Len(calls)
            /\ good = 1..Cardinality(good)
            /\ Cardinality(good) <= Len(exp)
            /\ pc = "body" => acc = SubSeq(exp, 1, Cardinality(good))
            /\ FailedWith(EnumF, ERROR_NO_MORE_ITEMS) => Len(calls) = Len(exp) + 1
            /\ (Ended /\ FailedWith(EnumF, ERROR_NO_MORE_ITEMS)) => result = Returned(exp)
            /\ (Ended /\ result.kind = "ok") => FailedWith(EnumF, ERROR_NO_MORE_ITEMS)
            /\ (Ended /\ result.kind = "raise") =>
                  result.exc[1].winerror # Some(ERROR_NO_MORE_ITEMS)

\* C19's case: a key with its default value and a named value was listed,
\* and the list has the two entries, the default value first under "".
C19_Witness ==
    /\ op.name = "list_registry_values" /\ Ended /\ result.kind = "ok"
    /\ Len(result.val[1]) = 2
    /\ result.val[1][1].name = "" /\ result.val[1][2].name = "v"
    /\ Len(EnumCalls) = 3

\* C19's case for an empty key: the first query reports the end.
C19_WitnessEmpty ==
    /\ Listing /\ Ended /\ result = Returned(<<>>)
    /\ Len(EnumCalls) = 1

\* C20: when an enumeration query of a listing operation fails with a code
\* other than 259, the call raises the exception the error table gives for
\* the code, with the code, and returns nothing; the handle is closed.
C20_EnumerationFailure ==
    \A c \in {ERROR_ACCESS_DENIED, ERROR_ALREADY_EXISTS} :
        (Listing /\ FailedWith(EnumF, c)) =>
            /\ pc \in {"close", "idle"}
            /\ pc = "close" => pending.kind = "exc"
            /\ pc = "idle" =>
                  /\ result.kind = "raise" /\ result.val = None
                  /\ result.exc[1].cls = (IF c = ERROR_ACCESS_DENIED
                                          THEN "RegistryPermissionError"
                                          ELSE "RegistryError")
                  /\ result.exc[1].winerror = Some(c)
                  /\ result.exc[1].path = Some(op.full_path)
                  /\ handles = <<>>
                  /\ trace[Len(trace)].f = "CloseKey"

\* C20's case: the query failed at an index past 0, entries in hand.
C20_Witness ==
    /\ Listing /\ Ended /\ result.kind = "raise"
    /\ Len(EnumCalls) >= 2
    /\ EnumCalls[1].err = None
    /\ EnumCalls[Len(EnumCalls)].err # None

----------------------------------------------------------------------------
(* Properties of the functions without state, checked under SpecTrans *)

\* Integers at and next to the ends of the 32-bit and 64-bit ranges:
\* -2**31 - 1, -2**31, 2**32 - 1, 2**32, -2**63 - 1, -2**63, 2**64 - 1, 2**64
BelowMinDword == PyInt(-1, 1073741821, 1073741823)
AtMinDword    == PyInt(-1, 1073741822, 0)
AtMaxDword    == PyInt(0, 3, 1073741823)
AboveMaxDword == PyInt(0, 4, 0)
BelowMinQword == PyInt(-9, 1073741823, 1073741823)
AtMinQword    == PyInt(-8, 0, 0)
AtMaxQword    == PyInt(15, 1073741823, 1073741823)
AboveMaxQword == PyInt(16, 0, 0)

\* The integers of the calls that lie in the 32-bit range, in the 64-bit
\* range only, in neither.
DwordInts     == {AtMinDword, PyInt(-1, 1073741823, 1073741823), PyInt(0, 0, 0),
                  PyInt(0, 0, 1), AtMaxDword}
QwordOnlyInts == {AtMinQword, BelowMinDword, AboveMaxDword, AtMaxQword}
HugeInts      == {BelowMinQword, AboveMaxQword}

\* The call raised an exception of class cls.
RaisedClass(cls) == result.kind = "raise" /\ result.exc[1].cls = cls

\* C21: inference without a type is a fixed table that never widens: a
\* string gets REG_SZ; an integer of [-2**31, 2**32 - 1] gets REG_DWORD and
\* an integer outside fails with ValueError, REG_QWORD never being
\* inferred, although the same integer is accepted with REG_QWORD given;
\* bytes get REG_BINARY; a list of strings, the empty list too, gets
\* REG_MULTI_SZ; a list with an item that is no string fails, and so does
\* every other shape, with TypeError.  A success returns the data as it is.
C21_InferenceTable ==
    /\ op.name = "infer_registry_type_for_new_value" =>
          LET d == op.value_data[1] IN
          /\ d.ty = "str" => result = Returned(<<d, REG_SZ>>)
          /\ d \in DwordInts => result = Returned(<<d, REG_DWORD>>)
          /\ d \in QwordOnlyInts \cup HugeInts => RaisedClass("ValueError")
          /\ d.ty = "bytes" => result = Returned(<<d, REG_BINARY>>)
          /\ (d.ty = "list" /\ \A i \in DOMAIN d.v : d.v[i] >= 0) =>
                result = Returned(<<d, REG_MULTI_SZ>>)
          /\ (d.ty = "list" /\ \E i \in DOMAIN d.v : d.v[i] < 0) => RaisedClass("TypeError")
          /\ d.ty \notin {"str", "int", "bytes", "list"} => RaisedClass("TypeError")
          /\ result.kind = "ok" =>
                result.val[1][1] = d /\ result.val[1][2] \in {REG_SZ, REG_DWORD, REG_BINARY, REG_MULTI_SZ}
    /\ (/\ op.name = "validate_and_convert_data_for_type"
        /\ op.value_data[1] \in QwordOnlyInts
        /\ op.value_type[1].n = REG_QWORD) => result = Returned(op.value_data[1])

\* C21's case: 2**32 given without a type was refused.
C21_Witness ==
    /\ op.name = "infer_registry_type_for_new_value"
    /\ op.value_data = Some(AboveMaxDword)
    /\ RaisedClass("ValueError")

\* C21's case: 2**32 given with REG_QWORD was accepted.
C21_WitnessExplicit ==
    /\ op.name = "validate_and_convert_data_for_type"
    /\ op.value_data = Some(AboveMaxDword) /\ op.value_type = Some(TypeInt(REG_QWORD))
    /\ result = Returned(AboveMaxDword)

\* C22: validation against a given type accepts an integer for
\* REG_DWORD, REG_DWORD_LITTLE_ENDIAN and REG_DWORD_BIG_ENDIAN exactly when
\* it is in [-2**31, 2**32 - 1], and for REG_QWORD and
\* REG_QWORD_LITTLE_ENDIAN exactly when it is in [-2**63, 2**64 - 1]; an
\* accepted integer is returned as it is, a refused one raises ValueError.
C22_IntegerRanges ==
    (op.name = "validate_and_convert_data_for_type" /\ op.value_data[1].ty = "int") =>
        LET d == op.value_data[1]
            t == op.value_type[1].n
        IN  /\ t \in {REG_DWORD, REG_DWORD_LITTLE_ENDIAN, REG_DWORD_BIG_ENDIAN} =>
                  /\ d \in DwordInts => result = Returned(d)
                  /\ d \notin DwordInts => RaisedClass("ValueError")
            /\ t \in {REG_QWORD, REG_QWORD_LITTLE_ENDIAN} =>
                  /\ d \in DwordInts \cup QwordOnlyInts => result = Returned(d)
                  /\ d \in HugeInts => RaisedClass("ValueError")

\* C22's case: the four ends of the ranges were accepted and the four
\* integers one past them refused, seen one call at a time.
C22_Witness ==
    /\ op.name = "validate_and_convert_data_for_type"
    /\ op.value_data = Some(AtMaxQword) /\ op.value_type = Some(TypeInt(REG_QWORD))
    /\ result = Returned(AtMaxQword)

C22_WitnessBeyond ==
    /\ op.name = "validate_and_convert_data_for_type"
    /\ op.value_data = Some(BelowMinDword) /\ op.value_type = Some(TypeInt(REG_DWORD_BIG_ENDIAN))
    /\ RaisedClass("ValueError")

\* The integer a type name stands for, whatever its letter case: the value
\* of the constant of that name, an alias sharing its base's value.
NamedType(cs) ==
    LET u == str_upper(cs) IN
    IF \E n \in 0..11 : REG_TYPE_NAMES_get(n) = u
    THEN Some(CHOOSE n \in 0..11 : REG_TYPE_NAMES_get(n) = u)
    ELSE IF u = RegName(<<"DWORD", "LITTLE", "ENDIAN">>) THEN Some(4)
    ELSE IF u = RegName(<<"QWORD", "LITTLE", "ENDIAN">>) THEN Some(11)
    ELSE None

\* What normalize_registry_type does with integers, names and other
\* inputs, unknown integers left aside.
NormalizeKnown(t) ==
    /\ (t.ty = "int" /\ t.n \in 0..11) =>
          /\ result = Returned(t.n)
          /\ normalize_registry_type_input(TypeStr(get_reg_type_name(t.n))).type = t.n
    /\ (t.ty = "str" /\ NamedType(t.s) # None) =>
          /\ result = Returned(NamedType(t.s)[1])
          /\ str_upper(t.s) \in DOMAIN REG_NAME_TO_TYPE =>
                get_reg_type_name(result.val[1]) = str_upper(t.s)
    /\ (t.ty = "str" /\ str_upper(t.s) \in
            {RegName(<<"DWORD">>), RegName(<<"DWORD", "LITTLE", "ENDIAN">>)}) =>
          /\ result = Returned(REG_DWORD)
          /\ get_reg_type_name(result.val[1]) = RegName(<<"DWORD">>)
    /\ (t.ty = "str" /\ str_upper(t.s) \in
            {RegName(<<"QWORD">>), RegName(<<"QWORD", "LITTLE", "ENDIAN">>)}) =>
          /\ result = Returned(REG_QWORD)
          /\ get_reg_type_name(result.val[1]) = RegName(<<"QWORD">>)
    /\ (t.ty = "str" /\ str_upper(t.s) = RegName(<<"DWORD", "BIG", "ENDIAN">>)) =>
          result = Returned(5)
    /\ (t.ty = "str" /\ NamedType(t.s) = None) => RaisedClass("ValueError")
    /\ t.ty \notin {"int", "str"} => RaisedClass("TypeError")
    /\ result.kind = "ok" =>
          normalize_registry_type_input(TypeInt(result.val[1])) = Ok(PyNone, result.val[1])

\* C23: normalize_registry_type sends both spellings of an alias pair, in
\* any letter case and as integers, to the one integer named by the base
\* name, keeps REG_DWORD_BIG_ENDIAN apart from REG_DWORD, is idempotent on
\* its output and is the inverse of get_reg_type_name on the canonical
\* names; an integer that is no registry type and a name that is no type
\* name raise ValueError, an input that is neither int nor str TypeError.
C23_NormalizeTypes ==
    op.name = "normalize_registry_type" =>
        LET t == op.value_type[1] IN
        /\ NormalizeKnown(t)
        /\ (t.ty = "int" /\ t.n \notin 0..11) => RaisedClass("ValueError")

\* The same statement with the integers left aside that are no registry
\* types but values of other REG_* constants of winreg.
C23_NormalizeTypesButMasks ==
    op.name = "normalize_registry_type" =>
        LET t == op.value_type[1] IN
        /\ NormalizeKnown(t)
        /\ (t.ty = "int" /\ t.n \notin 0..11
               /\ t.n \notin {REG_LEGAL_OPTION, REG_LEGAL_CHANGE_FILTER}) =>
              RaisedClass("ValueError")

\* The mask REG_LEGAL_OPTION went through normalize_registry_type.
C23_MaskAccepted ==
    /\ op.name = "normalize_registry_type"
    /\ op.value_type = Some(TypeInt(REG_LEGAL_OPTION))
    /\ result = Returned(REG_LEGAL_OPTION)

\* C24: _join_registry_paths with an empty prefix returns the path as it
\* is, with an empty path the prefix as it is, and what it returns never
\* holds the character '/'.
C24_JoinIdentityAndSeparator ==
    op.name = "join_registry_paths" =>
        /\ op.root_prefix = <<>> => result = Returned(op.key_path)
        /\ op.key_path = <<>> => result = Returned(op.root_prefix)
        /\ \A i \in DOMAIN result.val[1] : result.val[1][i] # "/"

\* The same statement with '/' absent from the result only when both the
\* prefix and the path are non-empty.
C24_JoinIdentityOrSeparator ==
    op.name = "join_registry_paths" =>
        /\ op.root_prefix = <<>> => result = Returned(op.key_path)
        /\ op.key_path = <<>> => result = Returned(op.root_prefix)
        /\ (op.root_prefix # <<>> /\ op.key_path # <<>>) =>
              \A i \in DOMAIN result.val[1] : result.val[1][i] # "/"

\* A path with '/' joined to the empty prefix came back with its '/'.
C24_SlashKept ==
    /\ op.name = "join_registry_paths"
    /\ op.root_prefix = <<>> /\ op.key_path = <<"A", "/">>
    /\ result = Returned(<<"A", "/">>)

\* The data a record keeps: a multi-string list as a tuple, anything else
\* as given.
KeptData(x) ==
    IF x.type = 7 /\ x.data.ty = "list" THEN [ty |-> "tuple", v |-> x.data.v] ELSE x.data

\* The two triples of the comparison are equal, a multi-string list
\* counting as the equal tuple.
SameTriples ==
    LET c == op.value[1] IN
    /\ c.a.name = c.b.name /\ c.a.type = c.b.type
    /\ KeptData(c.a) = KeptData(c.b)

\* Equality of records, and of a record and a bare tuple: equal exactly
\* when the triples are.
EqualityByTriple ==
    op.name = "RegistryValue_compare" => (result.val[1].eq <=> SameTriples)

\* C25 as stated: records built from equal triples are equal and have
\* equal hashes, a multi-string list counting as the equal tuple; a record
\* equals the bare tuple of its triple; records that differ in a field are
\* unequal.
C25_EqualAndHashEqual ==
    /\ EqualityByTriple
    /\ (op.name = "RegistryValue_compare" /\ op.value[1].form = "record" /\ SameTriples) =>
          /\ result.val[1].hash_a.kind = "ok"
          /\ result.val[1].hash_a = result.val[1].hash_b

\* C25: the same, with equal hashes for the records whose kept data is no
\* list; a record that keeps a list (a list given with a tag other than
\* REG_MULTI_SZ) has no hash: hashing it raises TypeError.
C25_EqualAndHashEqualIfHashable ==
    /\ EqualityByTriple
    /\ (op.name = "RegistryValue_compare" /\ op.value[1].form = "record") =>
          LET c == op.value[1]
              r == result.val[1]
          IN  /\ (SameTriples /\ KeptData(c.a).ty # "list") =>
                    r.hash_a.kind = "ok" /\ r.hash_a = r.hash_b
              /\ KeptData(c.a).ty = "list" =>
                    r.hash_a.kind = "raise" /\ r.hash_a.exc[1].cls = "TypeError"

\* C25's case: a record built from a multi-string list and one built from
\* the equal tuple are equal and have one hash.
C25_Witness ==
    /\ op.name = "RegistryValue_compare" /\ op.value[1].form = "record"
    /\ op.value[1].a.data = PyList(<<1, 2>>) /\ op.value[1].b.data = [ty |-> "tuple", v |-> <<1, 2>>]
    /\ op.value[1].a.type = REG_MULTI_SZ
    /\ result.val[1].eq
    /\ result.val[1].hash_a.kind = "ok" /\ result.val[1].hash_a = result.val[1].hash_b

\* C25's case: a record equals the bare tuple that holds the list.
C25_WitnessTuple ==
    /\ op.name = "RegistryValue_compare" /\ op.value[1].form = "tuple"
    /\ op.value[1].a.data = [ty |-> "tuple", v |-> <<1, 2>>] /\ op.value[1].b.data = PyList(<<1, 2>>)
    /\ op.value[1].a.type = REG_MULTI_SZ
    /\ result.val[1].eq

----------------------------------------------------------------------------
(* The operation layer beside another process, checked under SpecEnv *)

\* This step is a DeleteKey that the OS carried out.
DeleteKeyDone ==
    /\ pc = "delete"
    /\ Len(trace') = Len(trace) + 1
    /\ trace'[Len(trace')].f = "DeleteKey" /\ trace'[Len(trace')].err = None

\* C26: whatever the other process writes, the key that
\* delete_registry_key has the OS delete holds no value and no subkey at
\* the moment of the delete: nothing the other process added after the
\* count query goes with the key.
C26_DeleteOnlyEmpty ==
    [][DeleteKeyDone =>
          /\ NumValues(reg, op.full_path) = 0
          /\ Children(reg, op.full_path) = {}]_vars

\* The same statement for subkeys alone.
C26_DeleteOnlyChildless ==
    [][DeleteKeyDone => Children(reg, op.full_path) = {}]_vars

\* The later of the call's two OS steps found the key missing: OpenKey
\* after the key was created in put_registry_value, the OpenKey of the
\* parent or DeleteKey after the count query in delete_registry_key.
FoundMissingAt(i) ==
    /\ trace[i].err # None /\ trace[i].err[1].winerror = Some(ERROR_FILE_NOT_FOUND)
    /\ \/ /\ op.name = "put_registry_value" /\ trace[i].f = "OpenKey"
          /\ \E j \in 1..(i - 1) : trace[j].f = "CreateKeyEx" /\ trace[j].err = None
       \/ /\ op.name = "delete_registry_key" /\ trace[i].f \in {"OpenKey", "DeleteKey"}
          /\ \E j \in 1..(i - 1) : trace[j].f = "QueryInfoKey" /\ trace[j].err = None

\* C27: when the key is deleted by the other process between the two OS
\* steps of put_registry_value or of delete_registry_key, so that the
\* later step finds it missing, the call raises RegistryKeyNotFoundError
\* with the code of the OS: it does not return, does not raise a bare
\* OSError, and no handle is left open.
C27_DeletedBetweenSteps ==
    \A i \in DOMAIN trace :
        FoundMissingAt(i) =>
            /\ pc # "idle" => pc = "close_parent" /\ pending.kind = "exc"
                                /\ pending.exc[1].cls = "RegistryKeyNotFoundError"
            /\ pc = "idle" =>
                  /\ result.kind = "raise"
                  /\ result.exc[1].cls = "RegistryKeyNotFoundError"
                  /\ result.exc[1].winerror = Some(ERROR_FILE_NOT_FOUND)
                  /\ handles = <<>>

\* C27's case in put_registry_value: the key was created, the other
\* process deleted it, and OpenKey found it missing.
C27_Witness ==
    /\ op.name = "put_registry_value" /\ Ended
    /\ \E i \in DOMAIN trace : FoundMissingAt(i)
    /\ result.kind = "raise"

\* C27's case in delete_registry_key: DeleteKey found the key missing.
C27_WitnessDelete ==
    /\ op.name = "delete_registry_key" /\ Ended
    /\ \E i \in DOMAIN trace : FoundMissingAt(i) /\ trace[i].f = "DeleteKey"
    /\ result.kind = "raise"

----------------------------------------------------------------------------
(* The normalizer given its own output, checked under Spec *)

\* The entry of the trace that failed (a call has at most one).
FailedEntry == trace[CHOOSE i \in DOMAIN trace : trace[i].err # None]

\* The RegistryPermissionError the handler next to the failing primitive
\* builds for code 5: RegistryKey.__enter__ and the handler of CreateKeyEx
\* give the path of the key and no value name, the handlers of the value
\* primitives the path of the call and its value name, the others the path
\* of the call.
BuiltOnce ==
    LET f == FailedEntry.f IN
    [cls |-> "RegistryPermissionError", kind |-> "failed",
     path |-> IF f \in {"OpenKey", "CreateKeyEx"} THEN Some(FailedEntry.path)
              ELSE Some(op.full_path),
     name |-> IF f \in {"QueryValueEx", "SetValueEx", "DeleteValue"}
              THEN Some(op.value_name) ELSE None,
     counts |-> None,
     winerror |-> Some(5), strerror |-> Some(<<"strerror", 5>>)]

\* C28: an exception that is already a RegistryError goes through the
\* normalizer unchanged: the RegistryPermissionError built where the
\* primitive failed is what the call raises, with the class, path, value
\* name, code and OS message it was built with, whatever path and value
\* name the outer handlers of the operation pass.
C28_NormalizerIdempotent ==
    (Ended /\ SomeFailure /\ FailedEntry.err[1].winerror = Some(ERROR_ACCESS_DENIED)) =>
        result = Raised(BuiltOnce)

\* C28's case: OpenKey was denied in put_registry_value, whose outer
\* handler passes the value name; the exception carries none.
C28_Witness ==
    /\ op.name = "put_registry_value" /\ Ended
    /\ FailedWith("OpenKey", ERROR_ACCESS_DENIED)
    /\ result.kind = "raise" /\ result.exc[1].name = None

\* C28's case: DeleteKey was denied in delete_registry_key, whose outer
\* handler passes the parent's path; the exception carries the key's.
C28_WitnessDelete ==
    /\ op.name = "delete_registry_key" /\ Ended
    /\ op.full_path = PathAB
    /\ FailedWith("DeleteKey", ERROR_ACCESS_DENIED)
    /\ result.kind = "raise" /\ result.exc[1].path = Some(PathAB)

----------------------------------------------------------------------------
(* Handles and the frame of the read operations, checked under Spec *)

\* The entries of the trace that obtained a handle, and those that closed one.
Acquired(n) ==
    Cardinality({i \in 1..n : trace[i].f \in {"CreateKeyEx", "OpenKey"} /\ trace[i].err = None})
Closed(n) == Cardinality({i \in 1..n : trace[i].f = "CloseKey"})

\* C29: at every point of every operation at most one key handle is open:
\* a step obtains a handle only when every handle obtained before it has
\* been closed, and no handle is open when no call is in progress, so
\* none is open when the next call starts.
C29_OneHandleAtATime ==
    /\ Len(handles) <= 1
    /\ pc = "idle" => handles = <<>>
    /\ Len(handles) = Acquired(Len(trace)) - Closed(Len(trace))
    /\ \A i \in DOMAIN trace :
          (trace[i].f \in {"CreateKeyEx", "OpenKey"} /\ trace[i].err = None) =>
              Acquired(i - 1) = Closed(i - 1)

\* C29's case: delete_registry_key holds the parent's handle, the handle
\* of the key itself obtained and closed before.
C29_Witness ==
    /\ op.name = "delete_registry_key" /\ pc = "delete"
    /\ Len(handles) = 1 /\ handles[1].path = parent_full_path(op)
    /\ Acquired(Len(trace)) = 2 /\ Closed(Len(trace)) = 1

\* C29's case: put_registry_value holds the handle it sets the value
\* through, the handle of the created key closed before.
C29_WitnessPut ==
    /\ op.name = "put_registry_value" /\ pc = "body"
    /\ Len(handles) = 1
    /\ Acquired(Len(trace)) = 2 /\ Closed(Len(trace)) = 1

\* The primitives that change the hive.
Mutating == {"CreateKeyEx", "SetValueEx", "DeleteValue", "DeleteKey"}

\* C30: get_registry_value, list_registry_values, list_registry_subkeys
\* and head_registry_key invoke no primitive that changes the hive and
\* leave the keys and the values of every key as they were, whether they
\* return or raise; on a key that is absent they raise
\* RegistryKeyNotFoundError, unless the OS refuses the open for another
\* reason, and the key stays absent.
C30_ReadsChangeNothing ==
    op.name \in {"get_registry_value", "list_registry_values",
                 "list_registry_subkeys", "head_registry_key"} =>
        /\ \A i \in DOMAIN trace : trace[i].f \notin Mutating
        /\ reg = pre
        /\ (Ended /\ op.full_path \notin DOMAIN pre) =>
              /\ op.full_path \notin DOMAIN reg
              /\ result.kind = "raise"
              /\ FailedWith("OpenKey", ERROR_FILE_NOT_FOUND) =>
                    result.exc[1].cls = "RegistryKeyNotFoundError"
              /\ SomeFailure

\* C30's case: a read of an absent key raised RegistryKeyNotFoundError in
\* a hive that holds other keys, and the key is still absent.
C30_Witness ==
    /\ op.name = "list_registry_values" /\ Ended
    /\ op.full_path = PathAB /\ PathAB \notin DOMAIN reg /\ PathA \in DOMAIN reg
    /\ result.kind = "raise" /\ result.exc[1].cls = "RegistryKeyNotFoundError"

\* C30's case: a read returned and the hive, with a value in it, is as it was.
C30_WitnessReturn ==
    /\ op.name = "get_registry_value" /\ Ended /\ result.kind = "ok"
    /\ reg = pre /\ TotalValues(reg) > 0

============================================================================
